---- MODULE Spec2Model ----
(***************************************************************************)
(* A model of rust-voice: the UDP relay server (server/src/server.rs), the *)
(* wire messages and the wraparound sequence number                        *)
(* (common/src/packets.rs), the client session (client/src/client.rs) and  *)
(* the peer mixer (client/src/services/mixer.rs).                          *)
(*                                                                         *)
(* Specifications                                                          *)
(*   Spec        the server's event loop (Server::service): datagrams      *)
(*               arrive from a small set of addresses, the heartbeat       *)
(*               ticks, time passes.  The socket accepts every datagram it *)
(*               is given (send_to returns Ok).                            *)
(*   SpecFanout  the same loop within one instant, more addresses sending. *)
(*   SpecSeq     SeqNum comparison and addition applied to pairs of 16-bit *)
(*               values drawn around 0, 2^14, 2^15, 3 * 2^14 and 2^16 - 1. *)
(*   SpecVoice   a client session that was acknowledged, sending Voice     *)
(*               messages past the wrap of its 16-bit counter.             *)
(*   SpecClient  a client from Client::new on, any datagram arriving.      *)
(*   SpecMixer   the calls of PeerMixer in any order.                      *)
(*   SpecRelay   the server's loop after 512 connects, the users present   *)
(*               holding ids below and beyond 255.                         *)
(*   SpecSession the worker of the application (app/src/conn.rs): inputs   *)
(*               from the application, datagrams from the server, frames   *)
(*               from the microphone.                                      *)
(*   SpecSessionFair  the same, the worker taking a step whenever it can.  *)
(*   SpecUnsent  the server's loop with a socket whose send_to may fail.   *)
(*   SpecLocks   the control thread and the audio callback taking the      *)
(*               locks of the output stream and of the mixer               *)
(*               (client/src/services/audio: streams.rs, handle.rs).       *)
(*   SpecMic     the input callback and the microphone channel (streams.rs).*)
(*   SpecService the control loop of the audio service (service.rs).       *)
(*   SpecEncoder OpusEncoder::next (client/src/services/encoder.rs).       *)
(*   SpecAverage the rolling average (common/src/rolling_avg.rs).          *)
(*   SpecOrder   the server's loop within one instant, recording for every *)
(*               pair of users the Voice messages received and sent.       *)
(*   SpecThreads two threads calling push, add_peer, remove_peer and next  *)
(*               of one PeerMixer, every lock acquisition a step.          *)
(*   SpecWindow  SeqNum comparison on triples drawn from a window of fewer *)
(*               than 2^15 consecutive values.                             *)
(*   SpecFrames  the frame-sorting mixer (client/src/mixer.rs).            *)
(***************************************************************************)
EXTENDS Integers, Sequences, FiniteSets, TLC

VARIABLES
  running,    \* Server.running
  users,      \* Server.users : HashMap<SocketAddr, User>
  counter,    \* Server.counter : AtomicUsize
  now,        \* the clock (Instant::now()) when the loop last woke
  nextTick,   \* deadline of the heartbeat interval
  last,       \* the event the loop handled last: sender and kind of the datagram, or the tick
  out,        \* the datagrams sent while handling it: for each address, in order
  assigned,   \* the ids given to users so far, in order ("'{}' ({}) connected" log)
  seqA,       \* SeqNum comparison: left operand
  seqB,       \* SeqNum comparison: right operand
  seqOrd,     \* result of seqA.cmp(seqB)
  seqRev,     \* result of seqB.cmp(seqA)
  seqSum,     \* result of SeqNum(seqA) + seqB
  seqAcc,     \* outcome of `s += seqB` on s = SeqNum(seqA)
  cliPhase,     \* where the client is: before connect, in connect, in service, ...
  cliConnected, \* Client.connected
  cliSeq,       \* seq_num of Client::service
  cliVoices,    \* how many Voice messages the client has sent
  cliSent,      \* the seq_num of the Voice it sent last
  cliLast,      \* what the client did last
  mixChannels,  \* PeerMixer.channels : HashMap<u32, Channel>, each the queued samples
  mixDecoders,  \* PeerMixer.decoder_map : HashMap<u32, OpusDecoder>, each the decoder's state
  mixPeers,     \* PeerMixer.peers : AtomicUsize
  mixPops,      \* for each channel no producer has pushed to: the pops made on it
  mixRemoved,   \* the peers remove_peer has removed and add_peer has not added since
  mixLast,      \* the call the mixer served last, and what it returned
  sesState,     \* conn.rs: the variant of the worker's State, or Panicked
  sesInbox,     \* the inputs in the control channel, not yet received
  sesSeq,       \* State::Connected.seq_num
  sesVoices,    \* how many Voice messages the worker has sent
  sesAsked,     \* the application sent Disconnect while the state was Connected
  sesLast,      \* what the worker, or the application toward it, did last
  srvPanicked,  \* Server::service has panicked
  srvFailed,    \* the address whose send_to returned Err in the last step, or NoAddr
  ctlPc,        \* where the control thread is in its call of the audio handle or the mixer
  ctlRet,       \* where add_peer returns to
  ctlPeer,      \* the peer id the call was given
  cbPc,         \* where the output callback is
  lkSources,    \* who holds the Mutex of AudioSources
  lkChanWriter, \* who holds PeerMixer.channels for writing
  lkChanReaders, \* who holds PeerMixer.channels for reading
  lkDecoders,   \* who holds PeerMixer.decoder_map for writing
  lkPeers,      \* the keys of the two maps
  lkSourceCount, \* the length of AudioSources
  micChannels,  \* config.channels of the input stream, 0 before it is built
  micData,      \* the buffer of the input callback in progress
  micIndex,     \* the index (from 0) of the sample the callback offers next
  micSent,      \* the samples the callback in progress has offered, in order
  micQueue,     \* the samples in the mic channel
  micOpen,      \* the receiver of the mic channel exists
  micDropped,   \* Statistics.dropped_mic_samples
  micOffered,   \* how many samples the callbacks have offered
  micTaken,     \* how many samples the receiver has taken
  micCallbacks, \* how many callbacks have begun
  svcHandle,    \* the AudioHandle exists
  svcRunning,   \* AudioService::run has not returned
  svcInput,     \* AudioService.input_stream: the call it got last, or dropped
  svcOutput,    \* AudioService.output_stream: the call it got last, or dropped
  svcQueue,     \* the messages in the channel from the handle to the service
  svcSent,      \* every message the handle has sent, in order
  svcHandled,   \* every message the loop has handled, in order
  encBuffer,    \* OpusEncoder.in_buffer
  encArrived,   \* every sample the encoder's source has given, in order
  encCalls,     \* how many times next() was called
  encLast,      \* what the last call of next() returned, and what the codec answered
  avgIdx,       \* Average.idx
  avgMaxIdx,    \* Average.max_idx
  avgSamples,   \* Average.samples
  avgPushed,    \* every sample pushed, in order
  avgLast,      \* the result of avg() if it was the last call, and its output type
  relIn,        \* for each pair (sender, receiver) present together: the Voice payloads received from the sender
  relOut,       \* for each such pair: the Voice payloads of the sender sent to the receiver
  relCount,     \* how many Voice messages the server has received
  thPc,         \* for each thread sharing the PeerMixer: where it is in its call
  thRet,        \* for each thread: whether its add_peer was called by push
  thPeer,       \* for each thread: the peer id its call was given
  thDecoders,   \* the thread that holds PeerMixer.decoder_map for writing
  thChanWriter, \* the thread that holds PeerMixer.channels for writing
  thChanReaders, \* the threads that hold PeerMixer.channels for reading
  thPeers,      \* the keys of the two maps
  thPoisoned,   \* the locks a panic has poisoned
  winStart,     \* the first sequence number of the window
  winOffsets,   \* the offsets into the window of the three numbers compared
  winOrder,     \* the result of cmp for every pair of the three, or Unset
  fmChannels,   \* Mixer.peers: for each slot that holds a Channel, its buffer of frames
  fmActive,     \* Mixer.active
  fmPushed,     \* how many packets push_data was given
  fmPanicked,   \* a call on the Mixer has panicked
  fmLast        \* the call the Mixer served last, and the frames tick took

serverVars ==
  <<running, users, counter, now, nextTick, last, out, assigned>>
seqVars == <<seqA, seqB, seqOrd, seqRev, seqSum, seqAcc>>
clientVars == <<cliPhase, cliConnected, cliSeq, cliVoices, cliSent, cliLast>>
vars ==
  <<running, users, counter, now, nextTick, last, out, assigned,
    seqA, seqB, seqOrd, seqRev, seqSum, seqAcc,
    cliPhase, cliConnected, cliSeq, cliVoices, cliSent, cliLast,
    mixChannels, mixDecoders, mixPeers, mixPops, mixRemoved, mixLast,
    sesState, sesInbox, sesSeq, sesVoices, sesAsked, sesLast,
    srvPanicked, srvFailed,
    ctlPc, ctlRet, ctlPeer, cbPc, lkSources, lkChanWriter, lkChanReaders, lkDecoders,
    lkPeers, lkSourceCount,
    micChannels, micData, micIndex, micSent, micQueue, micOpen, micDropped, micOffered,
    micTaken, micCallbacks,
    svcHandle, svcRunning, svcInput, svcOutput, svcQueue, svcSent, svcHandled,
    encBuffer, encArrived, encCalls, encLast,
    avgIdx, avgMaxIdx, avgSamples, avgPushed, avgLast,
    relIn, relOut, relCount,
    thPc, thRet, thPeer, thDecoders, thChanWriter, thChanReaders, thPeers, thPoisoned,
    winStart, winOffsets, winOrder,
    fmChannels, fmActive, fmPushed, fmPanicked, fmLast>>
mixerVars == <<mixChannels, mixDecoders, mixPeers, mixPops, mixRemoved, mixLast>>
sessionVars == <<sesState, sesInbox, sesSeq, sesVoices, sesAsked, sesLast>>
sendVars == <<srvPanicked, srvFailed>>
lockVars ==
  <<ctlPc, ctlRet, ctlPeer, cbPc, lkSources, lkChanWriter, lkChanReaders, lkDecoders,
    lkPeers, lkSourceCount>>
\* the variables of the audio service
micVars ==
  <<micChannels, micData, micIndex, micSent, micQueue, micOpen, micDropped, micOffered,
    micTaken, micCallbacks>>
serviceVars == <<svcHandle, svcRunning, svcInput, svcOutput, svcQueue, svcSent, svcHandled>>
encoderVars == <<encBuffer, encArrived, encCalls, encLast>>
averageVars == <<avgIdx, avgMaxIdx, avgSamples, avgPushed, avgLast>>
orderVars == <<relIn, relOut, relCount>>
threadsVars == <<thPc, thRet, thPeer, thDecoders, thChanWriter, thChanReaders, thPeers, thPoisoned>>
windowVars == <<winStart, winOffsets, winOrder>>
framesVars == <<fmChannels, fmActive, fmPushed, fmPanicked, fmLast>>
restVars == <<lockVars, micVars, serviceVars, encoderVars, averageVars, orderVars, threadsVars, windowVars, framesVars>>

\* what the steps of one part leave alone: the variables of the other parts
exceptServer == <<seqVars, clientVars, mixerVars, sessionVars, sendVars, restVars>>
exceptSeq == <<serverVars, clientVars, mixerVars, sessionVars, sendVars, restVars>>
exceptClient == <<serverVars, seqVars, mixerVars, sessionVars, sendVars, restVars>>
exceptMixer == <<serverVars, seqVars, clientVars, sessionVars, sendVars, restVars>>
exceptSession == <<serverVars, seqVars, clientVars, sendVars, restVars>>
exceptSend == <<seqVars, clientVars, mixerVars, sessionVars, restVars>>
exceptLocks ==
  <<serverVars, seqVars, clientVars, mixerVars, sessionVars, sendVars,
    micVars, serviceVars, encoderVars, averageVars, orderVars, threadsVars, windowVars, framesVars>>
exceptMic ==
  <<serverVars, seqVars, clientVars, mixerVars, sessionVars, sendVars,
    lockVars, serviceVars, encoderVars, averageVars, orderVars, threadsVars, windowVars, framesVars>>
exceptEncoder ==
  <<serverVars, seqVars, clientVars, mixerVars, sessionVars, sendVars,
    lockVars, micVars, serviceVars, averageVars, orderVars, threadsVars, windowVars, framesVars>>
exceptAverage ==
  <<serverVars, seqVars, clientVars, mixerVars, sessionVars, sendVars,
    lockVars, micVars, serviceVars, encoderVars, orderVars, threadsVars, windowVars, framesVars>>
exceptService ==
  <<serverVars, seqVars, clientVars, mixerVars, sessionVars, sendVars,
    lockVars, micVars, encoderVars, averageVars, orderVars, threadsVars, windowVars, framesVars>>
exceptFrames ==
  <<serverVars, seqVars, clientVars, mixerVars, sessionVars, sendVars,
    lockVars, micVars, serviceVars, encoderVars, averageVars, orderVars, threadsVars, windowVars>>
exceptWindow ==
  <<serverVars, seqVars, clientVars, mixerVars, sessionVars, sendVars,
    lockVars, micVars, serviceVars, encoderVars, averageVars, orderVars, threadsVars, framesVars>>
exceptThreads ==
  <<serverVars, seqVars, clientVars, mixerVars, sessionVars, sendVars,
    lockVars, micVars, serviceVars, encoderVars, averageVars, orderVars, windowVars, framesVars>>
\* the relay histories are written in the steps of the server
exceptOrder ==
  <<seqVars, clientVars, mixerVars, sessionVars, sendVars,
    lockVars, micVars, serviceVars, encoderVars, averageVars, threadsVars, windowVars, framesVars>>

----------------------------------------------------------------------------
(* Bounds of the model *)

\* the clock runs from 0 to MaxTime
MaxTime == 4
\* at most MaxConnects Connects are accepted
MaxConnects == 3
\* the relay histories cover MaxRelays Voice messages
MaxRelays == 3
\* the frame-sorting mixer is given MaxFrames packets
MaxFrames == 3
\* the long-running server has accepted RelayCounter Connects
RelayCounter == 512
\* values within SeqSpread of 0, 2^14, 2^15, 3*2^14 and 2^16-1 are compared
SeqSpread == 2
\* a client session sends at most MaxVoices Voice messages (more than 2^16)
MaxVoices == 65538
\* Latency.samples of the mixer's latency
LatencySamples == 1
\* OpusDecoder.frame_size: the samples one decoded frame has
FrameSize == 2
\* PeerMixer creates at most MaxPeerAdds channels
MaxPeerAdds == 2
\* a client session whose handshake is explored sends at most ShortVoices
ShortVoices == 8
\* how many inputs the control channel of the connection worker holds
MaxInputs == 2
\* how many Voice messages the connection worker sends
SessionVoices == 2
\* how many sources are added to the audio handle
MaxSources == 1
\* the mic channel holds MicCapacity samples (4096 and one per sender in the program)
MicCapacity == 2
\* how many input callbacks run
MaxCallbacks == 2
\* how many messages the audio handle sends before it is dropped
MaxMessages == 3
\* OpusEncoder.frame_size: the samples of one frame
EncoderFrameSize == 2
\* how many times OpusEncoder::next is called
MaxEncoderCalls == 6
\* the N of Average<N, S>
AverageN == 2
\* how many samples are pushed to the Average
MaxPushes == 4

\* remote socket addresses
Addrs == {1, 2, 3}
\* Option<SocketAddr>::None
NoAddr == 0

----------------------------------------------------------------------------
(* Program constants *)

\* ServerConfig.timeout, in seconds
Timeout == 3
\* ServerConfig.heartbeat_interval, in seconds
HeartbeatInterval == 1
\* `as u8` of the user id
PeerIdModulus == 256
\* pub const PACKET_MAX_SIZE: usize = 32_768
PACKET_MAX_SIZE == 32768
\* u16 arithmetic
U16Modulus == 65536
\* const HALF: u16 = u16::MAX / 2
HALF == 65535 \div 2

----------------------------------------------------------------------------
(* SeqNum: common/src/packets.rs, client/src/packet.rs *)

\* a plain numeric comparison of the two u16
cmp_numeric(a, b) ==
  IF a = b THEN "Equal" ELSE IF a > b THEN "Greater" ELSE "Less"

\* the comparison with both thresholds one higher (2^15 for HALF)
cmp_wide(a, b) ==
  IF a = b THEN "Equal"
  ELSE IF (a > b /\ a - b <= HALF + 1) \/ (a < b /\ b - a > HALF + 1) THEN "Greater"
  ELSE "Less"

\* the comparison with `<` for `<=` in the first test
cmp_strict(a, b) ==
  IF a = b THEN "Equal"
  ELSE IF (a > b /\ a - b < HALF) \/ (a < b /\ b - a > HALF) THEN "Greater"
  ELSE "Less"

\* a comparison that looks half as far across the wrap
cmp_near(a, b) ==
  IF a = b THEN "Equal"
  ELSE IF (a > b /\ a - b <= HALF \div 2) \/ (a < b /\ b - a > HALF \div 2) THEN "Greater"
  ELSE "Less"

\* impl Ord for SeqNum: cmp
cmp(a, b) ==
  IF a = b THEN "Equal"
  ELSE IF (a > b /\ a - b <= HALF) \/ (a < b /\ b - a > HALF) THEN "Greater"
  ELSE "Less"

\* a > b, through PartialOrd::partial_cmp
gt(a, b) == cmp(a, b) = "Greater"
\* a < b
lt(a, b) == cmp(a, b) = "Less"

----------------------------------------------------------------------------
(* SeqNum comparison inside a window of consecutive values *)

\* a window holds fewer than 2^15 consecutive values
MaxWindow == HALF

\* where windows start: at 0, in the middle of the range, around the wrap
WindowStarts == {0, 1, HALF, HALF + 1, HALF + 3, U16Modulus - 2, U16Modulus - 1}

\* offsets into a window: its first values, its middle, its last values
WindowOffsets == {0, 1, MaxWindow \div 2, MaxWindow - 2, MaxWindow - 1}

\* the sequence number at the offset k of the window (u16 arithmetic)
window_value(start, k) == (start + k) % U16Modulus

\* no pair compared yet
NoOrder == [i \in 1..3 |-> [j \in 1..3 |-> "Unset"]]

\* SeqNum::cmp applied to every pair of the three numbers
WindowCompare ==
  /\ winOrder = NoOrder
  /\ winOrder' = [i \in 1..3 |-> [j \in 1..3 |->
                    cmp(window_value(winStart, winOffsets[i]),
                        window_value(winStart, winOffsets[j]))]]
  /\ UNCHANGED <<winStart, winOffsets>>

\* no window chosen
WindowIdle ==
  /\ winStart = 0
  /\ winOffsets = <<0, 0, 0>>
  /\ winOrder = NoOrder

\* a window and three numbers in it
WindowInit ==
  /\ winStart \in WindowStarts
  /\ winOffsets \in [1..3 -> WindowOffsets]
  /\ winOrder = NoOrder

----------------------------------------------------------------------------
(* SeqNum addition *)

\* impl ops::Add<u16> for SeqNum: Self(self.0.wrapping_add(rhs))
add(s, k) == (s + k) % U16Modulus

\* s += k has completed and left the value in s
Assigned(value) == [state |-> "Ok", value |-> value]
\* s += k has panicked ("attempt to add with overflow"), s keeps its value
Overflowed(value) == [state |-> "Panic", value |-> value]

\* impl ops::AddAssign<u16> for SeqNum: self.0 += rhs.  The outcomes of the
\* plain `+=` on u16: when the sum does not fit, the build with overflow
\* checks (the dev profile) panics and the build without them (the release
\* profile) wraps.
add_assign(s, k) ==
  IF s + k < U16Modulus
  THEN {Assigned(s + k)}
  ELSE {Overflowed(s), Assigned((s + k) % U16Modulus)}

----------------------------------------------------------------------------
(* Wire codec: common/src/packets.rs (bincode, fixed-width little endian) *)

\* Option::None
None == [type |-> "None"]

\* enum ClientMessage
Connect(username) == [type |-> "Connect", username |-> username]
Disconnect == [type |-> "Disconnect"]
Ping == [type |-> "Ping"]
ClientVoice(seq_num, samples) ==
  [type |-> "Voice", seq_num |-> seq_num, samples |-> samples]

\* enum ServerMessage
Pong == [type |-> "Pong"]
Connected(userinfo) == [type |-> "Connected", info |-> userinfo]
Disconnected(userinfo) == [type |-> "Disconnected", info |-> userinfo]
\* struct AudioPacket
AudioPacket(seq_num, peer_id, data) ==
  [seq_num |-> seq_num, peer_id |-> peer_id, data |-> data]
Voice(packet) == [type |-> "Voice", packet |-> packet]

RECURSIVE LE(_, _)
\* the k little-endian bytes of n
LE(n, k) == IF k = 0 THEN <<>> ELSE <<n % 256>> \o LE(n \div 256, k - 1)

\* a number no length, variant index or sequence number of a datagram reaches
Huge == PACKET_MAX_SIZE * 256

RECURSIVE FromLE(_)
\* the number a little-endian byte string stands for; numbers from Huge on
\* are all read as Huge (a length or variant index that large is an error
\* whatever its value)
FromLE(bytes) ==
  IF bytes = <<>> THEN 0
  ELSE LET hi == FromLE(Tail(bytes))
       IN IF hi >= PACKET_MAX_SIZE THEN Huge ELSE Head(bytes) + 256 * hi

\* whether a byte string is UTF-8, for strings of ASCII bytes and of bytes
\* that occur in no UTF-8 text (0xF8..0xFF)
IsUtf8(bytes) == \A i \in 1..Len(bytes) : bytes[i] < 128

\* ClientMessage::to_bytes: variant index as u32, then the fields; a String and
\* a Vec<u8> as u64 length and the bytes, a SeqNum as u16
to_bytes(command) ==
  CASE command.type = "Connect" ->
         LE(0, 4) \o LE(Len(command.username), 8) \o command.username
    [] command.type = "Disconnect" -> LE(1, 4)
    [] command.type = "Ping" -> LE(2, 4)
    [] command.type = "Voice" ->
         LE(3, 4) \o LE(command.seq_num, 2)
           \o LE(Len(command.samples), 8) \o command.samples

\* ClientMessage::from_bytes: bincode::deserialize(bytes).ok(); bytes after the
\* value are ignored, a short buffer, an unknown variant index and a string
\* that is not UTF-8 are errors
from_bytes(bytes) ==
  IF Len(bytes) < 4 THEN None
  ELSE
    LET tag == FromLE(SubSeq(bytes, 1, 4))
        rest == SubSeq(bytes, 5, Len(bytes))
    IN CASE tag = 0 ->
              IF Len(rest) < 8 THEN None
              ELSE LET n == FromLE(SubSeq(rest, 1, 8)) IN
                   IF Len(rest) - 8 < n THEN None
                   ELSE LET s == SubSeq(rest, 9, 8 + n) IN
                        IF IsUtf8(s) THEN Connect(s) ELSE None
         [] tag = 1 -> Disconnect
         [] tag = 2 -> Ping
         [] tag = 3 ->
              IF Len(rest) < 10 THEN None
              ELSE LET seq == FromLE(SubSeq(rest, 1, 2))
                       n == FromLE(SubSeq(rest, 3, 10))
                   IN IF Len(rest) - 10 < n THEN None
                      ELSE ClientVoice(seq, SubSeq(rest, 11, 10 + n))
         [] OTHER -> None

\* user names a client may give, as UTF-8 bytes ("a", "b")
Usernames == {<<97>>, <<98>>}

\* the messages clients send
ClientMessages ==
  {Connect(n) : n \in Usernames} \cup {Disconnect, Ping}
    \cup {ClientVoice(0, <<7>>), ClientVoice(U16Modulus - 1, <<>>)}

\* datagrams that are not the encoding of a message: cut short, an
\* unknown variant, a length beyond the buffer, a name that is not UTF-8
Garbage ==
  { <<2, 0, 0>>,
    LE(4, 4),
    LE(0, 4) \o LE(9, 8) \o <<97>>,
    LE(0, 4) \o LE(1, 8) \o <<255>>,
    LE(3, 4) \o LE(7, 2) }

\* the datagrams recv_from may deliver
Datagrams == {to_bytes(m) : m \in ClientMessages} \cup Garbage

----------------------------------------------------------------------------------------------------------------------------------------
(* Server: server/src/server.rs *)

\* struct User
User(id, username, addr, last_reply) ==
  [id |-> id, username |-> username, addr |-> addr, last_reply |-> last_reply]

\* User::info
info(user) == [id |-> user.id, username |-> user.username]

\* the enumerations of a finite set: the orders a HashMap may iterate in
Orders(S) ==
  {f \in [1..Cardinality(S) -> S] : \A i, j \in 1..Cardinality(S) : f[i] = f[j] => i = j}

\* no send_to call
NoSends == [a \in Addrs |-> <<>>]

\* the calls of `second` made ahead of those of `first`
Then_rev(first, second) == [a \in Addrs |-> second[a] \o first[a]]

\* the calls of `first`, then those of `second`
Then(first, second) == [a \in Addrs |-> first[a] \o second[a]]

\* Server::send: one send_to call
send(addr, command) == [a \in Addrs |-> IF a = addr THEN <<command>> ELSE <<>>]

\* a broadcast that sends every datagram twice
broadcast_twice(us, command, ignore) ==
  [a \in Addrs |-> IF a \in DOMAIN us /\ a # ignore THEN <<command, command>> ELSE <<>>]

\* Server::broadcast over the table `us`: one send to every key but `ignore`
broadcast(us, command, ignore) ==
  [a \in Addrs |-> IF a \in DOMAIN us /\ a # ignore THEN <<command>> ELSE <<>>]

\* Instant::elapsed, read at time t
elapsed(instant, t) == t - instant

\* a table that keeps the last_reply it had
touch_skip(us, addr, t) == us

\* handle_command, lines 64-71: refresh last_reply of the sender, if present,
\* with the clock at t
touch(us, addr, t) ==
  IF addr \in DOMAIN us
  THEN [us EXCEPT ![addr] = [@ EXCEPT !.last_reply = t]]
  ELSE us

\* an id taken from the size of the table
new_id_len(c, us) == Cardinality(DOMAIN us)

\* the id of a new user: counter.fetch_add(1) as u32.  The cast keeps every
\* counter value below 2^32; the counter stays below MaxConnects here
new_id(c, us) == c

\* HashMap::insert
insert(us, addr, user) == [a \in DOMAIN us \cup {addr} |-> IF a = addr THEN user ELSE us[a]]

\* HashMap::remove
remove(us, addr) == [a \in DOMAIN us \ {addr} |-> us[a]]

\* a tick that drops a user one interval before its timeout
retain_early(us, t) ==
  [a \in {x \in DOMAIN us : elapsed(us[x].last_reply, t) + HeartbeatInterval < Timeout} |-> us[a]]

\* users.retain(|_, user| user.last_reply.elapsed() < timeout), at time t
retain(us, t) ==
  [a \in {x \in DOMAIN us : elapsed(us[x].last_reply, t) < Timeout} |-> us[a]]

\* what a handler leaves behind: the table, the counter, the datagrams sent
Outcome(us, c, sends) == [users |-> us, counter |-> c, out |-> sends]

\* a Ping answered without looking the sender up
on_ping_unchecked(us, c, addr) == Outcome(us, c, send(addr, Pong))

\* handle_command, ClientMessage::Ping; `us` is the table after touch
on_ping(us, c, addr) ==
  IF addr \notin DOMAIN us
  THEN Outcome(us, c, NoSends)
  ELSE Outcome(us, c, send(addr, Pong))

\* the whole u32 id as the peer_id of a relayed packet
peer_id_wide(user) == user.id

\* the peer_id of a relayed packet: user.id as u8
peer_id(user) == user.id % PeerIdModulus

\* a Voice relayed to the whole table, the sender included
on_voice_echo(us, c, addr, seq_num, samples) ==
  IF addr \notin DOMAIN us
  THEN Outcome(us, c, NoSends)
  ELSE Outcome(us, c,
         broadcast(us, Voice(AudioPacket(seq_num, peer_id(us[addr]), samples)), NoAddr))

\* handle_command, ClientMessage::Voice
on_voice(us, c, addr, seq_num, samples) ==
  IF addr \notin DOMAIN us
  THEN Outcome(us, c, NoSends)
  ELSE Outcome(us, c,
         broadcast(us, Voice(AudioPacket(seq_num, peer_id(us[addr]), samples)), addr))

\* a Disconnect that announces the departure and keeps the user in the table
on_disconnect_keep(us, c, addr) ==
  IF addr \notin DOMAIN us
  THEN Outcome(us, c, NoSends)
  ELSE Outcome(us, c, broadcast(remove(us, addr), Disconnected(info(us[addr])), NoAddr))

\* handle_command, ClientMessage::Disconnect
on_disconnect(us, c, addr) ==
  IF addr \notin DOMAIN us
  THEN Outcome(us, c, NoSends)
  ELSE LET left == remove(us, addr)
       IN Outcome(left, c, broadcast(left, Disconnected(info(us[addr])), NoAddr))

\* a Connect whose announcement of the new user also goes to the new user
on_connect_echo(us, c, addr, username, t, order) ==
  IF addr \in DOMAIN us
  THEN Outcome(us, c, NoSends)
  ELSE LET user == User(new_id(c, us), username, addr, t)
           joined == insert(us, addr, user)
           roster == [a \in Addrs |->
                        IF a = addr
                        THEN [i \in 1..Len(order) |-> Connected(info(us[order[i]]))]
                        ELSE <<>>]
       IN Outcome(joined, c + 1,
            Then(send(addr, Pong),
                 Then(roster, broadcast(joined, Connected(info(user)), NoAddr))))

\* a Connect that replaces the record of an address already in the table
on_connect_overwrite(us, c, addr, username, t, order) ==
  LET user == User(new_id(c, us), username, addr, t)
      joined == insert(us, addr, user)
      roster == [a \in Addrs |->
                   IF a = addr
                   THEN [i \in 1..Len(order) |-> Connected(info(us[order[i]]))]
                   ELSE <<>>]
  IN Outcome(joined, c + 1,
       Then(send(addr, Pong),
            Then(roster, broadcast(joined, Connected(info(user)), addr))))

\* handle_command, ClientMessage::Connect, at time t; `order` is the order in
\* which users.values() yields the users already present
on_connect(us, c, addr, username, t, order) ==
  IF addr \in DOMAIN us
  THEN Outcome(us, c, NoSends)
  ELSE LET user == User(new_id(c, us), username, addr, t)
           joined == insert(us, addr, user)
           roster == [a \in Addrs |->
                        IF a = addr
                        THEN [i \in 1..Len(order) |-> Connected(info(us[order[i]]))]
                        ELSE <<>>]
       IN Outcome(joined, c + 1,
            Then(send(addr, Pong),
                 Then(roster, broadcast(joined, Connected(info(user)), addr))))

\* Server::handle_command, run with the clock at t
handle_command(addr, command, t) ==
  LET us == touch(users, addr, t) IN
  /\ \/ /\ command.type = "Connect"
        /\ addr \in DOMAIN users \/ counter < MaxConnects
        /\ \E order \in Orders(DOMAIN us) :
             LET r == on_connect(us, counter, addr, command.username, t, order)
             IN /\ users' = r.users
                /\ counter' = r.counter
                /\ out' = r.out
                /\ assigned' = IF r.counter = counter THEN assigned
                               ELSE Append(assigned, r.users[addr].id)
     \/ /\ command.type = "Disconnect"
        /\ LET r == on_disconnect(us, counter, addr)
           IN users' = r.users /\ counter' = r.counter /\ out' = r.out
        /\ assigned' = assigned
     \/ /\ command.type = "Ping"
        /\ LET r == on_ping(us, counter, addr)
           IN users' = r.users /\ counter' = r.counter /\ out' = r.out
        /\ assigned' = assigned
     \/ /\ command.type = "Voice"
        /\ LET r == on_voice(us, counter, addr, command.seq_num, command.samples)
           IN users' = r.users /\ counter' = r.counter /\ out' = r.out
        /\ assigned' = assigned
  /\ last' = [addr |-> addr, type |-> command.type]
  /\ now' = t
  /\ UNCHANGED <<running, nextTick>>

\* a parse error that refreshes the sender's last_reply all the same
on_parse_error_touch(us, addr, t) == touch(us, addr, t)

\* Server::service, recv branch, from_bytes gave None: the table is not used
on_parse_error(us, addr, t) == us

\* the decoding of every datagram of the model
Decoded == [bytes \in Datagrams |-> from_bytes(bytes)]

\* Server::service, recv branch: a datagram `bytes` from `addr` is received
\* at time t
Recv(addr, bytes, t) ==
  /\ running
  /\ LET command == Decoded[bytes] IN
       IF command = None
       THEN /\ users' = on_parse_error(users, addr, t)
            /\ out' = NoSends
            /\ last' = [addr |-> addr, type |-> "None"]
            /\ now' = t
            /\ UNCHANGED <<running, counter, nextTick, assigned>>
       ELSE handle_command(addr, command, t)

\* Server::service, heartbeat branch, at time t (the table is never locked by
\* another task when the tick runs: try_lock succeeds)
Heartbeat(t) ==
  /\ running
  /\ t >= nextTick
  /\ users' = retain(users, t)
  /\ nextTick' = t + HeartbeatInterval
  /\ out' = NoSends
  /\ last' = [addr |-> NoAddr, type |-> "Tick"]
  /\ now' = t
  /\ UNCHANGED <<running, counter, assigned>>

\* Server::start: bind the socket, create the interval (its first tick is due
\* at once) and enter the loop
Start ==
  /\ ~running
  /\ running' = TRUE
  /\ nextTick' = now
  /\ UNCHANGED <<users, counter, now, last, out, assigned>>

\* Server::new
ServerInit ==
  /\ running = FALSE
  /\ users = <<>>
  /\ counter = 0
  /\ now = 0
  /\ nextTick = 0
  /\ last = [addr |-> NoAddr, type |-> "Start"]
  /\ out = NoSends
  /\ assigned = <<>>

\* the times at which the loop may wake next: select! returns when a datagram
\* is there or the tick is due, and a tick is due every HeartbeatInterval
WakeTimes == {t \in now..(now + HeartbeatInterval) : t <= MaxTime}

----------------------------------------------------------------------------
(* Server: a send_to call that returns Err.  Every send of handle_command   *)
(* and of broadcast is followed by .unwrap(), which panics on Err: the      *)
(* panic ends Server::service at that call.                                 *)

\* what handle_command does when every send_to returns Ok
handled(us, c, addr, command, t, order) ==
  CASE command.type = "Connect" -> on_connect(us, c, addr, command.username, t, order)
    [] command.type = "Disconnect" -> on_disconnect(us, c, addr)
    [] command.type = "Ping" -> on_ping(us, c, addr)
    [] command.type = "Voice" -> on_voice(us, c, addr, command.seq_num, command.samples)

\* the addresses a handler sends to
recipients(sends) == {a \in Addrs : sends[a] # <<>>}

\* the send_to calls that returned Ok when the handler sends to the
\* addresses of `order` one after the other and send_to returns Err for the
\* address `failed`: the calls made before the unwrap() of that Err panics
delivered(sends, order, failed) ==
  [a \in Addrs |->
     IF \E i \in 1..Len(order) :
          order[i] = a /\ \A j \in 1..i : order[j] # failed
     THEN sends[a]
     ELSE <<>>]

\* Server::service, recv branch, with send_to returning Err for the address
\* `failed` (NoAddr: for none).  Connect sends to the new address first (the
\* Pong and the roster, lines 90-96) and inserts the user after that;
\* broadcast sends in the order the table iterates
RecvUnsent(addr, bytes, t, failed) ==
  LET command == Decoded[bytes]
      us == touch(users, addr, t)
  IN
  /\ running
  /\ ~srvPanicked
  /\ command # None
  /\ command.type = "Connect" => (addr \in DOMAIN users \/ counter < MaxConnects)
  /\ \E order \in Orders(DOMAIN us) :
       LET r == handled(us, counter, addr, command, t, order)
           hit == failed \in recipients(r.out)
       IN \E sendOrder \in Orders(recipients(r.out)) :
            /\ (command.type = "Connect" /\ r.counter # counter) => sendOrder[1] = addr
            /\ out' = delivered(r.out, sendOrder, failed)
            /\ srvPanicked' = hit
            /\ srvFailed' = IF hit THEN failed ELSE NoAddr
            /\ users' = IF hit /\ command.type = "Connect" /\ failed = addr
                        THEN us ELSE r.users
            /\ counter' = r.counter
            /\ assigned' = IF r.counter = counter THEN assigned
                           ELSE Append(assigned, r.users[addr].id)
  /\ last' = [addr |-> addr, type |-> command.type]
  /\ now' = t
  /\ UNCHANGED <<running, nextTick>>

\* the heartbeat branch of a loop that has not panicked
HeartbeatAlive(t) ==
  /\ ~srvPanicked
  /\ Heartbeat(t)
  /\ srvFailed' = NoAddr
  /\ UNCHANGED srvPanicked

\* no send has failed
SendInit ==
  /\ srvPanicked = FALSE
  /\ srvFailed = NoAddr

----------------------------------------------------------------------------
(* Client: client/src/client.rs, and the ServerMessage codec it decodes with *)

\* bincode of the UserInfo that User::info builds: the id as u32 (User.id),
\* the name as u64 length and bytes
userinfo_bytes(userinfo) ==
  LE(userinfo.id, 4) \o LE(Len(userinfo.username), 8) \o userinfo.username

\* ServerMessage::to_bytes: variant index as u32, then the fields; an
\* AudioPacket as u16 seq_num, u8 peer_id, u64 length and the bytes
server_to_bytes(msg) ==
  CASE msg.type = "Pong" -> LE(0, 4)
    [] msg.type = "Connected" -> LE(1, 4) \o userinfo_bytes(msg.info)
    [] msg.type = "Disconnected" -> LE(2, 4) \o userinfo_bytes(msg.info)
    [] msg.type = "Voice" ->
         LE(3, 4) \o LE(msg.packet.seq_num, 2) \o <<msg.packet.peer_id>>
           \o LE(Len(msg.packet.data), 8) \o msg.packet.data

\* the UserInfo at the head of a byte string, None when there is none
userinfo_from_bytes(bytes) ==
  IF Len(bytes) < 12 THEN None
  ELSE LET n == FromLE(SubSeq(bytes, 5, 12)) IN
       IF Len(bytes) - 12 < n THEN None
       ELSE LET name == SubSeq(bytes, 13, 12 + n) IN
            IF IsUtf8(name)
            THEN [type |-> "UserInfo", id |-> FromLE(SubSeq(bytes, 1, 4)), username |-> name]
            ELSE None

\* ServerMessage::from_bytes: bincode::deserialize(bytes).ok()
server_from_bytes(bytes) ==
  IF Len(bytes) < 4 THEN None
  ELSE
    LET tag == FromLE(SubSeq(bytes, 1, 4))
        rest == SubSeq(bytes, 5, Len(bytes))
        ui == userinfo_from_bytes(rest)
    IN CASE tag = 0 -> Pong
         [] tag = 1 ->
              IF ui = None THEN None
              ELSE Connected([id |-> ui.id, username |-> ui.username])
         [] tag = 2 ->
              IF ui = None THEN None
              ELSE Disconnected([id |-> ui.id, username |-> ui.username])
         [] tag = 3 ->
              IF Len(rest) < 11 THEN None
              ELSE LET n == FromLE(SubSeq(rest, 4, 11)) IN
                   IF Len(rest) - 11 < n THEN None
                   ELSE Voice(AudioPacket(FromLE(SubSeq(rest, 1, 2)), rest[3],
                                          SubSeq(rest, 12, 11 + n)))
         [] OTHER -> None

\* the messages a server sends
ServerMessages ==
  { Pong,
    Connected([id |-> 0, username |-> <<97>>]),
    Disconnected([id |-> 0, username |-> <<97>>]),
    Voice(AudioPacket(5, 1, <<7>>)) }

\* datagrams that are not the encoding of a ServerMessage
ServerGarbage == { <<0, 0>>, LE(4, 4), LE(1, 4) \o LE(0, 4) }

\* the datagrams the client's socket may deliver
ServerDatagrams == {server_to_bytes(m) : m \in ServerMessages} \cup ServerGarbage

\* mic.next() gave no frame
NoFrame == <<>>
\* the frames the mic may give
Frames == {<<7>>}

\* no Voice sent yet
NoSeq == -1

\* what one pass of the service loop with nothing to receive does to the
\* counter: sent is the seq_num of the Voice it sent (NoSeq: none), seq_num the
\* counter afterwards, panicked whether `seq_num += 1` panicked
MicOutcome(sent, seq_num, panicked) ==
  [sent |-> sent, seq_num |-> seq_num, panicked |-> panicked]

\* the loop advancing the counter whether or not the mic gave a frame
on_mic_eager(seq_num, frame) ==
  { MicOutcome(IF frame = NoFrame THEN NoSeq ELSE seq_num, r.value, r.state = "Panic") :
      r \in add_assign(seq_num, 1) }

\* Client::service, Err(WouldBlock) arm: if let Some(samples) = mic.next()
\* { send(Voice { seq_num, samples }); seq_num += 1 }
on_mic(seq_num, frame) ==
  IF frame = NoFrame
  THEN {MicOutcome(NoSeq, seq_num, FALSE)}
  ELSE {MicOutcome(seq_num, r.value, r.state = "Panic") : r \in add_assign(seq_num, 1)}

\* connect treating every decodable first datagram as the acknowledgement
on_handshake_any(connected, p) == [connected |-> TRUE, error |-> FALSE]

\* Client::connect, Ok(bytes) arm, for the decoded packet p: Pong sets
\* connected, anything else is logged as an error
on_handshake(connected, p) ==
  IF p.type = "Pong"
  THEN [connected |-> TRUE, error |-> FALSE]
  ELSE [connected |-> connected, error |-> TRUE]

\* Client::connect up to the blocking recv: the Connect is sent
ClientConnect ==
  /\ cliPhase = "New"
  /\ cliPhase' = "Handshake"
  /\ cliLast' = [event |-> "ConnectSent", kind |-> "Connect", error |-> FALSE]
  /\ UNCHANGED <<cliConnected, cliSeq, cliVoices, cliSent>>

\* Client::connect, the recv returns the datagram bytes
ClientHandshake(bytes) ==
  LET p == server_from_bytes(bytes) IN
  /\ cliPhase = "Handshake"
  /\ IF p = None
     THEN \* .expect("Invalid packet from server.")
          /\ cliPhase' = "Panicked"
          /\ cliConnected' = cliConnected
          /\ cliLast' = [event |-> "Handshake", kind |-> "None", error |-> TRUE]
     ELSE LET r == on_handshake(cliConnected, p) IN
          /\ cliPhase' = "Idle"
          /\ cliConnected' = r.connected
          /\ cliLast' = [event |-> "Handshake", kind |-> p.type, error |-> r.error]
  /\ UNCHANGED <<cliSeq, cliVoices, cliSent>>

\* Client::connect, the recv fails: Err(e) is logged
ClientHandshakeFailed ==
  /\ cliPhase = "Handshake"
  /\ cliPhase' = "Idle"
  /\ cliLast' = [event |-> "Handshake", kind |-> "Err", error |-> TRUE]
  /\ UNCHANGED <<cliConnected, cliSeq, cliVoices, cliSent>>

\* Client::service is entered: let mut seq_num = SeqNum(0)
ClientService ==
  /\ cliPhase = "Idle"
  /\ cliPhase' = "Service"
  /\ cliSeq' = 0
  /\ cliLast' = [event |-> "Service", kind |-> "", error |-> FALSE]
  /\ UNCHANGED <<cliConnected, cliVoices, cliSent>>

\* Client::service, Ok(bytes) arm: Client::recv forwards a Voice and a
\* Connected, logs any other message and panics on an undecodable datagram
ClientRecv(bytes) ==
  LET p == server_from_bytes(bytes) IN
  /\ cliPhase = "Service"
  /\ cliPhase' = IF p = None THEN "Panicked" ELSE "Service"
  /\ cliLast' = [event |-> "Recv", kind |-> p.type,
                 error |-> p.type \notin {"Voice", "Connected"}]
  /\ UNCHANGED <<cliConnected, cliSeq, cliVoices, cliSent>>

\* Client::service, Err(WouldBlock) arm, the mic giving frame or nothing; the
\* session sends at most limit Voice messages
ClientMic(frame, limit) ==
  /\ cliPhase = "Service"
  /\ cliVoices < limit
  /\ \E r \in on_mic(cliSeq, frame) :
       /\ cliSeq' = r.seq_num
       /\ cliPhase' = IF r.panicked THEN "Panicked" ELSE "Service"
       /\ IF r.sent = NoSeq
          THEN /\ UNCHANGED <<cliVoices, cliSent>>
               /\ cliLast' = [event |-> "Mic", kind |-> "", error |-> FALSE]
          ELSE /\ cliVoices' = cliVoices + 1
               /\ cliSent' = r.sent
               /\ cliLast' = [event |-> "Mic", kind |-> "Voice", error |-> r.panicked]
  /\ UNCHANGED cliConnected

\* Client::service, Err(e) arm with another error: the loop ends
ClientRecvFailed ==
  /\ cliPhase = "Service"
  /\ cliPhase' = "Stopped"
  /\ cliLast' = [event |-> "Recv", kind |-> "Err", error |-> TRUE]
  /\ UNCHANGED <<cliConnected, cliSeq, cliVoices, cliSent>>

\* Client::new
ClientInit ==
  /\ cliPhase = "New"
  /\ cliConnected = FALSE
  /\ cliSeq = 0
  /\ cliVoices = 0
  /\ cliSent = NoSeq
  /\ cliLast = [event |-> "New", kind |-> "", error |-> FALSE]

----------------------------------------------------------------------------
(* PeerMixer: client/src/services/mixer.rs.  Samples are integers; every call *)
(* of the mixer is one step (each runs under the mixer's RwLocks).           *)

\* Option::Some
Some(value) == [type |-> "Some", value |-> value]

\* peer ids
PeerIds == {1, 2}
\* encoded frames: a frame whose first byte is below 128 decodes, another
\* one is rejected by the codec
Packets == {<<1>>, <<200>>}

\* Channel::new with every slot of the ring filled with silence
channel_new_full(latency) == [i \in 1..(latency * 2) |-> 0]

\* Channel::new: a ring of latency.samples() * 2 slots with latency.samples()
\* default samples pushed
channel_new(latency) == [i \in 1..latency |-> 0]

\* the slots of the ring HeapRb::new(latency.samples() * 2)
capacity(latency) == latency * 2

\* Channel::pop: the oldest sample, None on an empty ring
pop(queue) == IF queue = <<>> THEN None ELSE Some(Head(queue))

\* the ring after Channel::pop
popped(queue) == IF queue = <<>> THEN queue ELSE Tail(queue)

\* push_slice keeping the end of a slice that does not fit
push_slice_tail(queue, samples) ==
  LET free == capacity(LatencySamples) - Len(queue)
      n == IF Len(samples) < free THEN Len(samples) ELSE free
  IN queue \o SubSeq(samples, Len(samples) - n + 1, Len(samples))

\* Channel::push_slice: as many of the samples as there are free slots
push_slice(queue, samples) ==
  LET free == capacity(LatencySamples) - Len(queue)
      n == IF Len(samples) < free THEN Len(samples) ELSE free
  IN queue \o SubSeq(samples, 1, n)

\* OpusDecoder::decode: Ok(output) with frame_size samples, or Err
decode(packet) ==
  IF packet[1] < 128
  THEN [ok |-> TRUE, output |-> [i \in 1..FrameSize |-> packet[1] + i - 1]]
  ELSE [ok |-> FALSE, output |-> <<>>]

\* struct PeerMixer
PeerMixer(channels, decoders, peers) ==
  [channels |-> channels, decoders |-> decoders, peers |-> peers]

\* a map with one more entry
with(map, key, value) ==
  [k \in DOMAIN map \cup {key} |-> IF k = key THEN value ELSE map[k]]

\* a map without the entry of key
without(map, key) == [k \in DOMAIN map \ {key} |-> map[k]]

\* add_peer replacing the channel of a peer that exists
add_peer_recreate(m, id) ==
  PeerMixer(with(m.channels, id, channel_new(LatencySamples)),
            with(m.decoders, id, "Fresh"),
            IF id \in DOMAIN m.decoders THEN m.peers ELSE m.peers + 1)

\* PeerMixer::add_peer: an existing peer has its decoder reset; a new one
\* gets a channel and a decoder
add_peer(m, id) ==
  IF id \in DOMAIN m.decoders
  THEN [m EXCEPT !.decoders[id] = "Fresh"]
  ELSE PeerMixer(with(m.channels, id, channel_new(LatencySamples)),
                 with(m.decoders, id, "Fresh"),
                 m.peers + 1)

\* remove_peer taking the channel and leaving the decoder
remove_peer_channel(m, id) ==
  IF id \notin DOMAIN m.channels
  THEN m
  ELSE PeerMixer(without(m.channels, id), m.decoders, m.peers)

\* PeerMixer::remove_peer
remove_peer(m, id) ==
  IF id \notin DOMAIN m.channels
  THEN m
  ELSE PeerMixer(without(m.channels, id), without(m.decoders, id), m.peers)

\* push decoding into a channel that was emptied first
push_replace(m, peer, packet) ==
  LET known == IF peer \in DOMAIN m.decoders THEN m ELSE add_peer(m, peer)
      d == decode(packet)
  IN [known EXCEPT !.channels[peer] = d.output, !.decoders[peer] = "Used"]

\* PeerMixer::push: an unknown peer is added, the packet is decoded by the
\* peer's decoder, the output goes to the peer's channel
push(m, peer, packet) ==
  LET known == IF peer \in DOMAIN m.decoders THEN m ELSE add_peer(m, peer)
      d == decode(packet)
  IN IF d.ok
     THEN [known EXCEPT !.channels[peer] = push_slice(@, d.output),
                        !.decoders[peer] = "Used"]
     ELSE known

RECURSIVE mix(_, _, _)
\* the loop of next over the channels in the order the map iterates
mix(channels, order, sample) ==
  IF order = <<>> THEN sample
  ELSE LET s == pop(channels[Head(order)])
       IN mix(channels, Tail(order),
              IF s = None THEN sample
              ELSE Some((IF sample = None THEN 0 ELSE sample.value) + s.value))

\* next returning silence when no channel has a sample
next_silent(channels, order) ==
  LET sample == mix(channels, order, None)
  IN IF sample = None THEN Some(0) ELSE sample

\* impl AudioSource for PeerMixer: next
next(channels, order) == mix(channels, order, None)

\* the history of pops on channels no producer has pushed to
Pushed == -1
NotePops(pops, channels) ==
  [p \in DOMAIN channels |->
     IF p \notin DOMAIN pops THEN 0 ELSE pops[p]]

\* a call of add_peer(id)
MixerAddPeer(id) ==
  LET m == add_peer(PeerMixer(mixChannels, mixDecoders, mixPeers), id) IN
  /\ id \in DOMAIN mixDecoders \/ mixPeers < MaxPeerAdds
  /\ mixChannels' = m.channels
  /\ mixDecoders' = m.decoders
  /\ mixPeers' = m.peers
  /\ mixPops' = NotePops(mixPops, m.channels)
  /\ mixRemoved' = mixRemoved \ {id}
  /\ mixLast' = [op |-> "add_peer", peer |-> id, packet |-> <<>>,
                 result |-> None, popped |-> <<>>]

\* a call of remove_peer(id)
MixerRemovePeer(id) ==
  LET m == remove_peer(PeerMixer(mixChannels, mixDecoders, mixPeers), id) IN
  /\ mixChannels' = m.channels
  /\ mixDecoders' = m.decoders
  /\ mixPeers' = m.peers
  /\ mixPops' = [p \in DOMAIN m.channels |-> mixPops[p]]
  /\ mixRemoved' = IF id \in DOMAIN mixChannels THEN mixRemoved \cup {id} ELSE mixRemoved
  /\ mixLast' = [op |-> "remove_peer", peer |-> id, packet |-> <<>>,
                 result |-> None, popped |-> <<>>]

\* a call of push(peer, packet)
MixerPush(peer, packet) ==
  LET m == push(PeerMixer(mixChannels, mixDecoders, mixPeers), peer, packet) IN
  /\ peer \in DOMAIN mixDecoders \/ mixPeers < MaxPeerAdds
  /\ mixChannels' = m.channels
  /\ mixDecoders' = m.decoders
  /\ mixPeers' = m.peers
  /\ mixPops' = [NotePops(mixPops, m.channels) EXCEPT
                   ![peer] = IF decode(packet).ok THEN Pushed ELSE @]
  /\ mixRemoved' = mixRemoved
  /\ mixLast' = [op |-> "push", peer |-> peer, packet |-> packet,
                 result |-> None, popped |-> <<>>]

\* a call of next()
MixerNext ==
  /\ \E order \in Orders(DOMAIN mixChannels) :
       mixLast' = [op |-> "next", peer |-> 0, packet |-> <<>>,
                   result |-> next(mixChannels, order),
                   popped |-> [p \in DOMAIN mixChannels |-> pop(mixChannels[p])]]
  /\ mixChannels' = [p \in DOMAIN mixChannels |-> popped(mixChannels[p])]
  /\ mixPops' = [p \in DOMAIN mixPops |->
                   IF mixPops[p] = Pushed \/ mixPops[p] > LatencySamples
                   THEN mixPops[p] ELSE mixPops[p] + 1]
  /\ UNCHANGED <<mixDecoders, mixPeers, mixRemoved>>

\* PeerMixer::new
MixerInit ==
  /\ mixChannels = <<>>
  /\ mixDecoders = <<>>
  /\ mixPeers = 0
  /\ mixPops = <<>>
  /\ mixRemoved = {}
  /\ mixLast = [op |-> "new", peer |-> 0, packet |-> <<>>,
                result |-> None, popped |-> <<>>]

----------------------------------------------------------------------------
(* The connection worker of the application: full/app/src/conn.rs.  The     *)
(* worker owns the session state, the socket and the mixer; the application *)
(* reaches it through the control channel it is handed in Event::Ready.     *)
(* The socket accepts every datagram the worker sends.                      *)

\* enum Input, the user name and the address left out
InputConnect == "Connect"
InputDisconnect == "Disconnect"
Inputs == {InputConnect, InputDisconnect}

\* the messages a server sends to a session whose only peer has id 1
SessionMessages ==
  { Pong,
    Connected([id |-> 1, username |-> <<97>>]),
    Disconnected([id |-> 1, username |-> <<97>>]),
    Voice(AudioPacket(5, 1, <<1>>)) }

\* the datagrams the worker's socket may deliver
SessionDatagrams == {server_to_bytes(m) : m \in SessionMessages} \cup {LE(4, 4)}

\* the user or the peer a message is about, 0 when it is about none
subject(p) ==
  CASE p.type \in {"Connected", "Disconnected"} -> p.info.id
    [] p.type = "Voice" -> p.packet.peer_id
    [] OTHER -> 0

\* the worker is in State::Ready(rx) (the handshake runs inside that arm):
\* the receiver of the control channel exists
ReceiverAlive == sesState \in {"Ready", "Handshake"}

\* State::Starting: the channel is made, its sender is handed to the
\* application in Event::Ready, the receiver is kept in State::Ready
SessionStart ==
  /\ sesState = "Starting"
  /\ sesState' = "Ready"
  /\ sesLast' = [event |-> "Ready", kind |-> "", peer |-> 0]
  /\ UNCHANGED <<sesInbox, sesSeq, sesVoices, sesAsked>>
  /\ UNCHANGED mixerVars

\* the application calls conn.try_send(input) and ignores the result
\* (App::update): the input is queued while the receiver exists and is lost
\* once the receiver was dropped
AppSend(input) ==
  /\ sesState # "Starting"
  /\ ReceiverAlive => Len(sesInbox) < MaxInputs
  /\ sesInbox' = IF ReceiverAlive THEN Append(sesInbox, input) ELSE sesInbox
  /\ sesAsked' = (sesAsked \/ (input = InputDisconnect /\ sesState = "Connected"))
  /\ sesLast' = [event |-> IF ReceiverAlive THEN "Queued" ELSE "Lost",
                 kind |-> input, peer |-> 0]
  /\ UNCHANGED <<sesState, sesSeq, sesVoices>>
  /\ UNCHANGED mixerVars

\* State::Ready, rx.select_next_some() gives the next input.  Connect: the
\* audio is started, a PeerMixer is made and added as a source, the socket
\* is bound and connected, Connect is sent and the worker waits for the
\* first datagram.  Disconnect: todo!()
SessionInput ==
  /\ sesState = "Ready"
  /\ sesInbox # <<>>
  /\ sesInbox' = Tail(sesInbox)
  /\ IF Head(sesInbox) = InputConnect
     THEN /\ sesState' = "Handshake"
          /\ mixChannels' = <<>>
          /\ mixDecoders' = <<>>
          /\ mixPeers' = 0
          /\ mixPops' = <<>>
          /\ mixRemoved' = {}
          /\ mixLast' = [op |-> "new", peer |-> 0, packet |-> <<>>,
                         result |-> None, popped |-> <<>>]
     ELSE /\ sesState' = "Panicked"
          /\ UNCHANGED mixerVars
  /\ sesLast' = [event |-> "Input", kind |-> Head(sesInbox), peer |-> 0]
  /\ UNCHANGED <<sesSeq, sesVoices, sesAsked>>

\* State::Ready, Connect arm, socket.recv returns the datagram bytes: an
\* undecodable one panics (expect), Pong makes the state Connected with
\* seq_num 0, any other message is logged and the state stays Ready, the
\* audio and the mixer of this attempt being dropped
SessionHandshake(bytes) ==
  LET p == server_from_bytes(bytes) IN
  /\ sesState = "Handshake"
  /\ sesState' = CASE p = None -> "Panicked"
                   [] p = Pong -> "Connected"
                   [] OTHER -> "Ready"
  /\ sesSeq' = IF p = Pong THEN 0 ELSE sesSeq
  /\ sesLast' = [event |-> "Handshake", kind |-> p.type, peer |-> 0]
  /\ UNCHANGED <<sesInbox, sesVoices, sesAsked>>
  /\ UNCHANGED mixerVars

\* State::Ready, Connect arm, socket.recv fails: Err(_) => todo!()
SessionHandshakeFailed ==
  /\ sesState = "Handshake"
  /\ sesState' = "Panicked"
  /\ sesLast' = [event |-> "Handshake", kind |-> "Err", peer |-> 0]
  /\ UNCHANGED <<sesInbox, sesSeq, sesVoices, sesAsked>>
  /\ UNCHANGED mixerVars

\* State::Connected, receive branch, socket.recv returns the datagram
\* bytes: an undecodable one panics (expect), a Voice is pushed to the mixer
\* under packet.peer_id, a Connected is logged at info level, any other
\* message is logged as an error
SessionRecv(bytes) ==
  LET p == server_from_bytes(bytes) IN
  /\ sesState = "Connected"
  /\ sesState' = IF p = None THEN "Panicked" ELSE "Connected"
  /\ IF p.type = "Voice"
     THEN MixerPush(p.packet.peer_id, p.packet.data)
     ELSE UNCHANGED mixerVars
  /\ sesLast' = [event |-> "Recv", kind |-> p.type, peer |-> subject(p)]
  /\ UNCHANGED <<sesInbox, sesSeq, sesVoices, sesAsked>>

\* State::Connected, receive branch, socket.recv fails: `if let Ok(bytes)`
\* does not match and the loop goes on
SessionRecvFailed ==
  /\ sesState = "Connected"
  /\ sesLast' = [event |-> "Recv", kind |-> "Err", peer |-> 0]
  /\ UNCHANGED <<sesState, sesInbox, sesSeq, sesVoices, sesAsked>>
  /\ UNCHANGED mixerVars

\* State::Connected, mic branch, mic.next() giving frame or nothing:
\* if let Some(samples) = mic { send(Voice { seq_num, samples }); *seq_num += 1 };
\* the session sends at most limit Voice messages
SessionMic(frame, limit) ==
  /\ sesState = "Connected"
  /\ sesVoices < limit
  /\ \E r \in on_mic(sesSeq, frame) :
       /\ sesSeq' = r.seq_num
       /\ sesState' = IF r.panicked THEN "Panicked" ELSE "Connected"
       /\ sesVoices' = IF r.sent = NoSeq THEN sesVoices ELSE sesVoices + 1
       /\ sesLast' = [event |-> "Mic", kind |-> IF r.sent = NoSeq THEN "" ELSE "Voice",
                      peer |-> 0]
  /\ UNCHANGED <<sesInbox, sesAsked>>
  /\ UNCHANGED mixerVars

\* the output callback pulls one sample from the mixer the worker added as
\* a source; the audio lives from the Connect input until the state that
\* holds it is dropped
SessionPlay ==
  /\ sesState \in {"Handshake", "Connected"}
  /\ MixerNext
  /\ UNCHANGED sessionVars

\* the worker before its first step
SessionInit ==
  /\ sesState = "Starting"
  /\ sesInbox = <<>>
  /\ sesSeq = 0
  /\ sesVoices = 0
  /\ sesAsked = FALSE
  /\ sesLast = [event |-> "New", kind |-> "", peer |-> 0]

----------------------------------------------------------------------------
(* The locks of the audio output path: the source list of the audio handle  *)
(* (audio/mod.rs, a Mutex) and the two maps of PeerMixer (RwLocks), taken   *)
(* by the output callback (audio/streams.rs) and by the thread that calls   *)
(* add_source, add_peer, remove_peer and push.  Every acquisition is a step *)
(* of its own: lock(), read() and write() return once the lock is granted.  *)

\* the calls of the control thread
LockCalls == {"add_source", "add_peer", "remove_peer", "push"}

\* a lock nobody holds
Free == "free"

\* RwLock::write is granted: no writer and no reader
writable == lkChanWriter = Free /\ lkChanReaders = {}

\* RwLock::read is granted: no writer
readable == lkChanWriter = Free

\* the control thread begins the call op with the peer id
CtlCall(op, id) ==
  /\ ctlPc = "idle"
  /\ op = "add_source" => lkSourceCount < MaxSources
  /\ ctlPc' = op
  /\ ctlPeer' = id
  /\ ctlRet' = "idle"
  /\ UNCHANGED <<cbPc, lkSources, lkChanWriter, lkChanReaders, lkDecoders, lkPeers,
                 lkSourceCount>>

\* AudioHandle::add_source: self.sources.lock().unwrap() is granted
CtlAddSourceLock ==
  /\ ctlPc = "add_source"
  /\ lkSources = Free
  /\ lkSources' = "control"
  /\ ctlPc' = "add_source.push"
  /\ UNCHANGED <<ctlRet, ctlPeer, cbPc, lkChanWriter, lkChanReaders, lkDecoders, lkPeers,
                 lkSourceCount>>

\* AudioHandle::add_source: .push(source), the guard is dropped
CtlAddSourcePush ==
  /\ ctlPc = "add_source.push"
  /\ lkSourceCount' = lkSourceCount + 1
  /\ lkSources' = Free
  /\ ctlPc' = "idle"
  /\ UNCHANGED <<ctlRet, ctlPeer, cbPc, lkChanWriter, lkChanReaders, lkDecoders, lkPeers>>

\* add_peer, line 85: decoder_map.write() is granted
CtlAddPeerLock ==
  /\ ctlPc = "add_peer"
  /\ lkDecoders = Free
  /\ lkDecoders' = "control"
  /\ ctlPc' = "add_peer.check"
  /\ UNCHANGED <<ctlRet, ctlPeer, cbPc, lkSources, lkChanWriter, lkChanReaders, lkPeers,
                 lkSourceCount>>

\* add_peer, lines 86-92: a peer that exists has its decoder reset and the
\* call returns; for a new one the decoder is made
CtlAddPeerCheck ==
  /\ ctlPc = "add_peer.check"
  /\ IF ctlPeer \in lkPeers
     THEN lkDecoders' = Free /\ ctlPc' = ctlRet
     ELSE lkDecoders' = lkDecoders /\ ctlPc' = "add_peer.channels"
  /\ UNCHANGED <<ctlRet, ctlPeer, cbPc, lkSources, lkChanWriter, lkChanReaders, lkPeers,
                 lkSourceCount>>

\* add_peer, line 94: self.channels.write() is granted
CtlAddPeerWrite ==
  /\ ctlPc = "add_peer.channels"
  /\ writable
  /\ lkChanWriter' = "control"
  /\ ctlPc' = "add_peer.insert"
  /\ UNCHANGED <<ctlRet, ctlPeer, cbPc, lkSources, lkChanReaders, lkDecoders, lkPeers,
                 lkSourceCount>>

\* add_peer, lines 94-98: the channel and the decoder are inserted, both
\* guards are dropped and the call returns
CtlAddPeerInsert ==
  /\ ctlPc = "add_peer.insert"
  /\ lkPeers' = lkPeers \cup {ctlPeer}
  /\ lkChanWriter' = Free
  /\ lkDecoders' = Free
  /\ ctlPc' = ctlRet
  /\ UNCHANGED <<ctlRet, ctlPeer, cbPc, lkSources, lkChanReaders, lkSourceCount>>

\* remove_peer, line 103: self.channels.write() is granted
CtlRemovePeerWrite ==
  /\ ctlPc = "remove_peer"
  /\ writable
  /\ lkChanWriter' = "control"
  /\ ctlPc' = "remove_peer.decoders"
  /\ UNCHANGED <<ctlRet, ctlPeer, cbPc, lkSources, lkChanReaders, lkDecoders, lkPeers,
                 lkSourceCount>>

\* remove_peer, line 104: self.decoder_map.write() is granted
CtlRemovePeerLock ==
  /\ ctlPc = "remove_peer.decoders"
  /\ lkDecoders = Free
  /\ lkDecoders' = "control"
  /\ ctlPc' = "remove_peer.remove"
  /\ UNCHANGED <<ctlRet, ctlPeer, cbPc, lkSources, lkChanWriter, lkChanReaders, lkPeers,
                 lkSourceCount>>

\* remove_peer, lines 105-111: the entries are removed if there are any, the
\* guards are dropped
CtlRemovePeerRemove ==
  /\ ctlPc = "remove_peer.remove"
  /\ lkPeers' = lkPeers \ {ctlPeer}
  /\ lkChanWriter' = Free
  /\ lkDecoders' = Free
  /\ ctlPc' = "idle"
  /\ UNCHANGED <<ctlRet, ctlPeer, cbPc, lkSources, lkChanReaders, lkSourceCount>>

\* push, lines 64 and 68: self.decoder_map.write() is granted
CtlPushLock ==
  /\ ctlPc = "push"
  /\ lkDecoders = Free
  /\ lkDecoders' = "control"
  /\ ctlPc' = "push.check"
  /\ UNCHANGED <<ctlRet, ctlPeer, cbPc, lkSources, lkChanWriter, lkChanReaders, lkPeers,
                 lkSourceCount>>

\* push, lines 65-72: for an unknown peer the guard is dropped and add_peer
\* is called, after which the lock is taken again; then the packet is
\* decoded.  Err: the guard is dropped and the call returns
CtlPushCheck(ok) ==
  /\ ctlPc = "push.check"
  /\ IF ctlPeer \notin lkPeers
     THEN lkDecoders' = Free /\ ctlPc' = "add_peer" /\ ctlRet' = "push"
     ELSE IF ok
          THEN lkDecoders' = lkDecoders /\ ctlPc' = "push.channels" /\ ctlRet' = ctlRet
          ELSE lkDecoders' = Free /\ ctlPc' = "idle" /\ ctlRet' = ctlRet
  /\ UNCHANGED <<ctlPeer, cbPc, lkSources, lkChanWriter, lkChanReaders, lkPeers,
                 lkSourceCount>>

\* push, line 74: self.channels.read() is granted
CtlPushRead ==
  /\ ctlPc = "push.channels"
  /\ readable
  /\ lkChanReaders' = lkChanReaders \cup {"control"}
  /\ ctlPc' = "push.slice"
  /\ UNCHANGED <<ctlRet, ctlPeer, cbPc, lkSources, lkChanWriter, lkDecoders, lkPeers,
                 lkSourceCount>>

\* push, lines 75-77: push_slice, the guards are dropped
CtlPushSlice ==
  /\ ctlPc = "push.slice"
  /\ lkChanReaders' = lkChanReaders \ {"control"}
  /\ lkDecoders' = Free
  /\ ctlPc' = "idle"
  /\ UNCHANGED <<ctlRet, ctlPeer, cbPc, lkSources, lkChanWriter, lkPeers, lkSourceCount>>

\* make_output_stream, data_fn: the callback comes to the next sample of the
\* buffer it fills
CbSample ==
  /\ cbPc = "idle"
  /\ cbPc' = "sources.lock"
  /\ UNCHANGED <<ctlPc, ctlRet, ctlPeer, lkSources, lkChanWriter, lkChanReaders,
                 lkDecoders, lkPeers, lkSourceCount>>

\* data_fn, line 44: sources.lock().unwrap() is granted
CbLockSources ==
  /\ cbPc = "sources.lock"
  /\ lkSources = Free
  /\ lkSources' = "callback"
  /\ cbPc' = "sources.clone"
  /\ UNCHANGED <<ctlPc, ctlRet, ctlPeer, lkChanWriter, lkChanReaders, lkDecoders, lkPeers,
                 lkSourceCount>>

\* data_fn, lines 45-47: the list is cloned and the guard dropped; with no
\* source the sample is 0.0
CbCloneSources ==
  /\ cbPc = "sources.clone"
  /\ lkSources' = Free
  /\ cbPc' = IF lkSourceCount = 0 THEN "idle" ELSE "next.read"
  /\ UNCHANGED <<ctlPc, ctlRet, ctlPeer, lkChanWriter, lkChanReaders, lkDecoders, lkPeers,
                 lkSourceCount>>

\* PeerMixer::next, line 116: self.channels.read() is granted
CbRead ==
  /\ cbPc = "next.read"
  /\ readable
  /\ lkChanReaders' = lkChanReaders \cup {"callback"}
  /\ cbPc' = "next.pop"
  /\ UNCHANGED <<ctlPc, ctlRet, ctlPeer, lkSources, lkChanWriter, lkDecoders, lkPeers,
                 lkSourceCount>>

\* PeerMixer::next, lines 117-124: every channel is popped, the guard is
\* dropped, the sample is written to the buffer
CbPop ==
  /\ cbPc = "next.pop"
  /\ lkChanReaders' = lkChanReaders \ {"callback"}
  /\ cbPc' = "idle"
  /\ UNCHANGED <<ctlPc, ctlRet, ctlPeer, lkSources, lkChanWriter, lkDecoders, lkPeers,
                 lkSourceCount>>

\* no call in progress, no source, no peer
LockInit ==
  /\ ctlPc = "idle"
  /\ ctlRet = "idle"
  /\ ctlPeer = 0
  /\ cbPc = "idle"
  /\ lkSources = Free
  /\ lkChanWriter = Free
  /\ lkChanReaders = {}
  /\ lkDecoders = Free
  /\ lkPeers = {}
  /\ lkSourceCount = 0

----------------------------------------------------------------------------
(* PeerMixer shared by several threads (Send + Sync, every method takes      *)
(* &self): the locks of client/src/services/mixer.rs taken by calls of push, *)
(* add_peer, remove_peer and next that run at the same time.  Every          *)
(* acquisition is a step of its own.                                         *)

\* the threads that share the mixer
ThreadIds == {"first", "second"}

\* the methods a thread may call
ThreadCalls == {"push", "add_peer", "remove_peer", "next"}

\* the locks of the mixer
DecoderMap == "decoder_map"
Channels == "channels"

\* the lock the thread at pc is about to take, and how
wanted(pc) ==
  CASE pc \in {"add_peer", "remove_peer.decoders", "push", "push.relock"}
         -> [lock |-> DecoderMap, mode |-> "write"]
    [] pc \in {"add_peer.channels", "remove_peer"}
         -> [lock |-> Channels, mode |-> "write"]
    [] pc \in {"push.channels", "next"}
         -> [lock |-> Channels, mode |-> "read"]
    [] OTHER -> [lock |-> "none", mode |-> "none"]

\* where the thread is once the lock it wanted at pc is granted
acquired(pc) ==
  CASE pc = "add_peer" -> "add_peer.check"
    [] pc = "add_peer.channels" -> "add_peer.insert"
    [] pc = "remove_peer" -> "remove_peer.decoders"
    [] pc = "remove_peer.decoders" -> "remove_peer.remove"
    [] pc = "push" -> "push.check"
    [] pc = "push.relock" -> "push.decode"
    [] pc = "push.channels" -> "push.slice"
    [] pc = "next" -> "next.pop"
    [] OTHER -> pc

\* RwLock::read and RwLock::write: whether the lock can be granted now
grantable(w) ==
  CASE w.lock = DecoderMap -> thDecoders = Free
    [] w.lock = Channels /\ w.mode = "write" -> thChanWriter = Free /\ thChanReaders = {}
    [] w.lock = Channels /\ w.mode = "read" -> thChanWriter = Free
    [] OTHER -> FALSE

\* where add_peer returns to: into push (line 68) or to the caller
returned(ret) == IF ret = "push" THEN "push.relock" ELSE "idle"

\* the thread th begins the call op with the peer id
ThCall(th, op, id) ==
  /\ thPc[th] = "idle"
  /\ thPc' = [thPc EXCEPT ![th] = op]
  /\ thPeer' = [thPeer EXCEPT ![th] = id]
  /\ thRet' = [thRet EXCEPT ![th] = "idle"]
  /\ UNCHANGED <<thDecoders, thChanWriter, thChanReaders, thPeers, thPoisoned>>

\* the thread unwinds from a panic: its guards are dropped, the locks it held
\* for writing are poisoned
ThUnwind(th) ==
  /\ thPc' = [thPc EXCEPT ![th] = "panicked"]
  /\ thDecoders' = IF thDecoders = th THEN Free ELSE thDecoders
  /\ thChanWriter' = IF thChanWriter = th THEN Free ELSE thChanWriter
  /\ thChanReaders' = thChanReaders \ {th}
  /\ thPoisoned' = thPoisoned \cup (IF thDecoders = th THEN {DecoderMap} ELSE {})
                              \cup (IF thChanWriter = th THEN {Channels} ELSE {})
  /\ UNCHANGED <<thRet, thPeer, thPeers>>

\* .read().unwrap() or .write().unwrap() returns: the lock is granted, or it
\* is poisoned and the unwrap panics (lines 64, 68, 74, 85, 94, 103, 104, 116)
ThAcquire(th) ==
  LET w == wanted(thPc[th]) IN
  /\ w.lock # "none"
  /\ grantable(w)
  /\ IF w.lock \in thPoisoned
     THEN ThUnwind(th)
     ELSE /\ thPc' = [thPc EXCEPT ![th] = acquired(@)]
          /\ thDecoders' = IF w.lock = DecoderMap THEN th ELSE thDecoders
          /\ thChanWriter' = IF w.lock = Channels /\ w.mode = "write" THEN th
                             ELSE thChanWriter
          /\ thChanReaders' = IF w.lock = Channels /\ w.mode = "read"
                              THEN thChanReaders \cup {th} ELSE thChanReaders
          /\ UNCHANGED <<thRet, thPeer, thPeers, thPoisoned>>

\* add_peer, lines 86-92: a peer that exists has its decoder reset and the
\* call returns; for a new one the decoder is made
ThAddPeerCheck(th) ==
  /\ thPc[th] = "add_peer.check"
  /\ IF thPeer[th] \in thPeers
     THEN /\ thDecoders' = Free
          /\ thPc' = [thPc EXCEPT ![th] = returned(thRet[th])]
     ELSE /\ thDecoders' = thDecoders
          /\ thPc' = [thPc EXCEPT ![th] = "add_peer.channels"]
  /\ UNCHANGED <<thRet, thPeer, thChanWriter, thChanReaders, thPeers, thPoisoned>>

\* add_peer, lines 94-98: the channel and the decoder are inserted, the
\* guards are dropped and the call returns
ThAddPeerInsert(th) ==
  /\ thPc[th] = "add_peer.insert"
  /\ thPeers' = thPeers \cup {thPeer[th]}
  /\ thChanWriter' = Free
  /\ thDecoders' = Free
  /\ thPc' = [thPc EXCEPT ![th] = returned(thRet[th])]
  /\ UNCHANGED <<thRet, thPeer, thChanReaders, thPoisoned>>

\* remove_peer, lines 105-111: the entries are removed if there are any, the
\* guards are dropped
ThRemovePeerRemove(th) ==
  /\ thPc[th] = "remove_peer.remove"
  /\ thPeers' = thPeers \ {thPeer[th]}
  /\ thChanWriter' = Free
  /\ thDecoders' = Free
  /\ thPc' = [thPc EXCEPT ![th] = "idle"]
  /\ UNCHANGED <<thRet, thPeer, thChanReaders, thPoisoned>>

\* push, lines 65-67: for an unknown peer the guard is dropped and add_peer
\* is called; for a known one the packet is decoded (lines 71-81)
ThPushCheck(th, ok) ==
  /\ thPc[th] = "push.check"
  /\ IF thPeer[th] \notin thPeers
     THEN /\ thDecoders' = Free
          /\ thPc' = [thPc EXCEPT ![th] = "add_peer"]
          /\ thRet' = [thRet EXCEPT ![th] = "push"]
     ELSE /\ thRet' = thRet
          /\ IF ok
             THEN thDecoders' = thDecoders /\ thPc' = [thPc EXCEPT ![th] = "push.channels"]
             ELSE thDecoders' = Free /\ thPc' = [thPc EXCEPT ![th] = "idle"]
  /\ UNCHANGED <<thPeer, thChanWriter, thChanReaders, thPeers, thPoisoned>>

\* push, lines 71-81, after add_peer returned and the lock was taken again:
\* .expect("decoder not found") panics if the peer is gone, else the packet
\* is decoded
ThPushDecode(th, ok) ==
  /\ thPc[th] = "push.decode"
  /\ IF thPeer[th] \notin thPeers
     THEN ThUnwind(th)
     ELSE /\ IF ok
             THEN thDecoders' = thDecoders /\ thPc' = [thPc EXCEPT ![th] = "push.channels"]
             ELSE thDecoders' = Free /\ thPc' = [thPc EXCEPT ![th] = "idle"]
          /\ UNCHANGED <<thRet, thPeer, thChanWriter, thChanReaders, thPeers, thPoisoned>>

\* push, lines 75-77: push_slice, the guards are dropped
ThPushSlice(th) ==
  /\ thPc[th] = "push.slice"
  /\ thChanReaders' = thChanReaders \ {th}
  /\ thDecoders' = Free
  /\ thPc' = [thPc EXCEPT ![th] = "idle"]
  /\ UNCHANGED <<thRet, thPeer, thChanWriter, thPeers, thPoisoned>>

\* next, lines 117-124: every channel is popped, the guard is dropped
ThNextPop(th) ==
  /\ thPc[th] = "next.pop"
  /\ thChanReaders' = thChanReaders \ {th}
  /\ thPc' = [thPc EXCEPT ![th] = "idle"]
  /\ UNCHANGED <<thRet, thPeer, thDecoders, thChanWriter, thPeers, thPoisoned>>

\* PeerMixer::new, no call in progress
ThreadsInit ==
  /\ thPc = [th \in ThreadIds |-> "idle"]
  /\ thRet = [th \in ThreadIds |-> "idle"]
  /\ thPeer = [th \in ThreadIds |-> 0]
  /\ thDecoders = Free
  /\ thChanWriter = Free
  /\ thChanReaders = {}
  /\ thPeers = {}
  /\ thPoisoned = {}

----------------------------------------------------------------------------
(* The frame-sorting mixer: client/src/mixer.rs.  A Channel buffers whole    *)
(* frames and hands out the one that sorts first; Mixer keeps one Channel    *)
(* for each slot of a fixed table.  The samples of a frame are not modelled: *)
(* a frame is its seq_num and the number of the packet that brought it.      *)

\* pub const MAX_PEERS: usize = u8::MAX as usize
MAX_PEERS == 255

\* PeerID = u8: the ids add_peer and push_data are given
FramePeerIds == {0, MAX_PEERS - 1, MAX_PEERS}

\* the seq_nums of the packets: a few numbers on either side of the wrap
FrameSeqNums == {U16Modulus - 2, U16Modulus - 1, 0, 1}

\* struct AudioFrame
AudioFrame(seq_num, data) == [seq_num |-> seq_num, data |-> data]

\* frames ordered by the plain value of their seq_num
frame_cmp_numeric(f, g) == cmp_numeric(f.seq_num, g.seq_num)

\* impl Ord for AudioFrame: self.seq_num.cmp(&other.seq_num)
frame_cmp(f, g) == cmp(f.seq_num, g.seq_num)

RECURSIVE sorted_insert(_, _)
\* the sorted sequence with the frame put behind every frame that is not
\* greater than it
sorted_insert(sorted, frame) ==
  IF sorted = <<>> THEN <<frame>>
  ELSE IF frame_cmp(Head(sorted), frame) = "Greater"
       THEN <<frame>> \o sorted
       ELSE <<Head(sorted)>> \o sorted_insert(Tail(sorted), frame)

RECURSIVE sort(_)
\* slice::sort, a stable sort by Ord
sort(buffer) ==
  IF buffer = <<>> THEN <<>>
  ELSE sorted_insert(sort(SubSeq(buffer, 1, Len(buffer) - 1)), buffer[Len(buffer)])

\* Channel::next: the buffer is sorted, the front is popped
channel_next(buffer) ==
  LET sorted == sort(buffer)
  IN IF sorted = <<>>
     THEN [frame |-> None, buffer |-> sorted]
     ELSE [frame |-> Some(Head(sorted)), buffer |-> Tail(sorted)]

\* self.peers.get_mut(id as usize): Some for an index inside the table
in_bounds(id) == id < MAX_PEERS

\* Mixer::add_peer
FmAddPeer(id) ==
  /\ ~fmPanicked
  /\ IF ~in_bounds(id)
     THEN \* .expect("peer id out of bounds")
          /\ fmPanicked' = TRUE
          /\ UNCHANGED <<fmChannels, fmActive>>
     ELSE /\ fmPanicked' = FALSE
          /\ IF id \in DOMAIN fmChannels
             THEN UNCHANGED <<fmChannels, fmActive>>
             ELSE /\ fmChannels' = with(fmChannels, id, <<>>)
                  /\ fmActive' = Append(fmActive, id)
  /\ fmLast' = [op |-> "add_peer", peer |-> id, popped |-> <<>>]
  /\ UNCHANGED fmPushed

\* Mixer::push_data for a packet of the peer with the seq_num; whole: its
\* data has FRAME_SIZE samples (try_into gives a frame)
FmPushData(peer, seq_num, whole) ==
  /\ ~fmPanicked
  /\ fmPushed < MaxFrames
  /\ fmPushed' = fmPushed + 1
  /\ IF ~in_bounds(peer)
     THEN \* .expect("peer id out of bounds")
          /\ fmPanicked' = TRUE
          /\ UNCHANGED fmChannels
     ELSE /\ fmPanicked' = FALSE
          /\ fmChannels' =
               IF peer \in DOMAIN fmChannels /\ whole
               THEN [fmChannels EXCEPT ![peer] = Append(@, AudioFrame(seq_num, fmPushed))]
               ELSE fmChannels
  /\ fmLast' = [op |-> "push_data", peer |-> peer, popped |-> <<>>]
  /\ UNCHANGED fmActive

\* Mixer::tick: next() of the channel of every active peer; the frames taken
\* are summed and written to the speaker ring
FmTick ==
  /\ ~fmPanicked
  /\ \E p \in DOMAIN fmChannels : fmChannels[p] # <<>>
  /\ fmChannels' = [p \in DOMAIN fmChannels |-> channel_next(fmChannels[p]).buffer]
  /\ fmLast' = [op |-> "tick", peer |-> 0,
                popped |-> [p \in DOMAIN fmChannels |-> channel_next(fmChannels[p]).frame]]
  /\ UNCHANGED <<fmActive, fmPushed, fmPanicked>>

\* Mixer::new
FramesInit ==
  /\ fmChannels = <<>>
  /\ fmActive = <<>>
  /\ fmPushed = 0
  /\ fmPanicked = FALSE
  /\ fmLast = [op |-> "new", peer |-> 0, popped |-> <<>>]

----------------------------------------------------------------------------
(* The mic input callback: client/src/audio/streams.rs, make_input_stream.  *)
(* The callback offers one sample at a time to the channel whose receiver   *)
(* the encoder drains; both run on their own threads.                       *)

\* the interleaved buffers the device hands to the callback
MicBuffers == {<<1, 2, 3, 4>>, <<5, 6, 7>>, <<8>>}

\* config.channels of the input stream
MicChannelCounts == {1, 2}

\* a callback that offers every sample of the buffer
step_by_one(index, channels) == index + 1

\* data.iter().step_by(config.channels): the index after `index`
step_by(index, channels) == index + channels

\* mic_tx.try_send(sample): Ok and the sample queued while the channel is
\* open and has room, Err otherwise
try_send(queue, open, sample) ==
  IF open /\ Len(queue) < MicCapacity
  THEN [ok |-> TRUE, queue |-> Append(queue, sample)]
  ELSE [ok |-> FALSE, queue |-> queue]

\* make_input_stream: the stream is built for a device with `channels`
\* channels
MicBuild(channels) ==
  /\ micChannels = 0
  /\ micChannels' = channels
  /\ UNCHANGED <<micData, micIndex, micSent, micQueue, micOpen, micDropped, micOffered,
                 micTaken, micCallbacks>>

\* the device calls data_fn with a buffer
MicBegin(data) ==
  /\ micChannels # 0
  /\ micIndex >= Len(micData)
  /\ micCallbacks < MaxCallbacks
  /\ micData' = data
  /\ micIndex' = 0
  /\ micSent' = <<>>
  /\ micCallbacks' = micCallbacks + 1
  /\ UNCHANGED <<micChannels, micQueue, micOpen, micDropped, micOffered, micTaken>>

\* data_fn, one pass of the for loop: the sample is offered with try_send,
\* an Err increments dropped_mic_samples (AtomicCounter::inc)
MicOffer ==
  /\ micIndex < Len(micData)
  /\ LET sample == micData[micIndex + 1]
         r == try_send(micQueue, micOpen, sample)
     IN /\ micQueue' = r.queue
        /\ micDropped' = IF r.ok THEN micDropped ELSE micDropped + 1
        /\ micSent' = Append(micSent, sample)
  /\ micOffered' = micOffered + 1
  /\ micIndex' = step_by(micIndex, micChannels)
  /\ UNCHANGED <<micChannels, micData, micOpen, micTaken, micCallbacks>>

\* the receiving side takes the oldest sample from the channel
MicTake ==
  /\ micOpen
  /\ micQueue # <<>>
  /\ micQueue' = Tail(micQueue)
  /\ micTaken' = micTaken + 1
  /\ UNCHANGED <<micChannels, micData, micIndex, micSent, micOpen, micDropped, micOffered,
                 micCallbacks>>

\* the receiver is dropped: the channel is disconnected and what it held is
\* discarded with it
MicClose ==
  /\ micOpen
  /\ micOpen' = FALSE
  /\ UNCHANGED <<micChannels, micData, micIndex, micSent, micQueue, micDropped, micOffered,
                 micTaken, micCallbacks>>

\* AudioServiceBuilder::start: the channel is made, Statistics::new
MicInit ==
  /\ micChannels = 0
  /\ micData = <<>>
  /\ micIndex = 0
  /\ micSent = <<>>
  /\ micQueue = <<>>
  /\ micOpen = TRUE
  /\ micDropped = 0
  /\ micOffered = 0
  /\ micTaken = 0
  /\ micCallbacks = 0

----------------------------------------------------------------------------
(* The control loop of the audio service: client/src/audio/service.rs, and  *)
(* the handle that sends to it: client/src/audio/handle.rs.                 *)

\* enum Message
Messages == {"Play", "Pause", "Stop"}

\* what the loop and the streams are after a message
Handled(alive, input, output) == [running |-> alive, input |-> input, output |-> output]

\* a loop that goes on after Stop
on_message_deaf(m, input, output) ==
  CASE m = "Play" -> Handled(TRUE, "playing", "playing")
    [] m = "Pause" -> Handled(TRUE, "paused", "paused")
    [] m = "Stop" -> Handled(TRUE, input, output)

\* AudioService::run, the match on a message: Play and Pause are passed to
\* both streams; Stop returns, and the service with its streams is dropped
\* at the end of the thread's closure
on_message(m, input, output) ==
  CASE m = "Play" -> Handled(TRUE, "playing", "playing")
    [] m = "Pause" -> Handled(TRUE, "paused", "paused")
    [] m = "Stop" -> Handled(FALSE, "dropped", "dropped")

\* AudioHandle::play / pause / stop: self.tx.send(m); the send fails, and is
\* logged, once the receiver was dropped with the service
HandleSend(m) ==
  /\ svcHandle
  /\ Len(svcSent) < MaxMessages
  /\ svcSent' = Append(svcSent, m)
  /\ svcQueue' = IF svcRunning THEN Append(svcQueue, m) ELSE svcQueue
  /\ UNCHANGED <<svcHandle, svcRunning, svcInput, svcOutput, svcHandled>>

\* impl Drop for AudioHandle: self.stop(), then the sender is dropped
HandleDrop ==
  /\ svcHandle
  /\ svcHandle' = FALSE
  /\ svcSent' = Append(svcSent, "Stop")
  /\ svcQueue' = IF svcRunning THEN Append(svcQueue, "Stop") ELSE svcQueue
  /\ UNCHANGED <<svcRunning, svcInput, svcOutput, svcHandled>>

\* AudioService::run, one pass of `while let Ok(m) = self.rx.recv()`: the
\* oldest message is handled; recv gives Err, which ends the loop like
\* Stop, when the channel is empty and the sender was dropped.  The messages
\* still queued when the loop ends are dropped with the receiver
ServiceRecv ==
  /\ svcRunning
  /\ svcQueue # <<>> \/ ~svcHandle
  /\ LET m == IF svcQueue # <<>> THEN Head(svcQueue) ELSE "Stop"
         r == on_message(m, svcInput, svcOutput)
     IN /\ svcRunning' = r.running
        /\ svcInput' = r.input
        /\ svcOutput' = r.output
        /\ svcQueue' = IF r.running THEN Tail(svcQueue) ELSE <<>>
        /\ svcHandled' = IF svcQueue # <<>> THEN Append(svcHandled, m) ELSE svcHandled
  /\ UNCHANGED <<svcHandle, svcSent>>

\* AudioServiceBuilder::start: the thread has built both streams and entered
\* the loop, the handle was returned
ServiceInit ==
  /\ svcHandle = TRUE
  /\ svcRunning = TRUE
  /\ svcInput = "built"
  /\ svcOutput = "built"
  /\ svcQueue = <<>>
  /\ svcSent = <<>>
  /\ svcHandled = <<>>

----------------------------------------------------------------------------
(* OpusEncoder: client/src/services/encoder.rs.  The codec is left out: a   *)
(* packet is the frame it was encoded from, and whether encode_vec_float    *)
(* returns Ok or Err is an outcome of the call.                             *)

\* the samples the source may give
EncoderSamples == {1, 2}

\* encoder.encode_vec_float(&input, PACKET_MAX_SIZE / 2)
encode(input, ok) ==
  IF ok THEN [ok |-> TRUE, packet |-> [codec |-> "opus", frame |-> input]]
  ELSE [ok |-> FALSE, packet |-> <<>>]

\* a next that encodes the frame and leaves its samples in the buffer
encoder_next_keep(buffer, s, ok) ==
  LET buf == IF s = None THEN buffer ELSE Append(buffer, s.value) IN
  IF Len(buf) >= EncoderFrameSize
  THEN LET input == SubSeq(buf, 1, EncoderFrameSize)
           r == encode(input, ok)
       IN [buffer |-> buf, result |-> IF r.ok THEN Some(r.packet) ELSE None]
  ELSE [buffer |-> buf, result |-> None]

\* OpusEncoder::next, the source giving s: the sample is pushed to the back
\* of in_buffer; once frame_size samples are there they are drained and
\* encoded; Ok(packet) is returned as Some(packet), Err is logged
encoder_next(buffer, s, ok) ==
  LET buf == IF s = None THEN buffer ELSE Append(buffer, s.value) IN
  IF Len(buf) >= EncoderFrameSize
  THEN LET input == SubSeq(buf, 1, EncoderFrameSize)
           r == encode(input, ok)
       IN [buffer |-> SubSeq(buf, EncoderFrameSize + 1, Len(buf)),
           result |-> IF r.ok THEN Some(r.packet) ELSE None]
  ELSE [buffer |-> buf, result |-> None]

\* a call of next(): the source gives s, the codec accepts the frame or not
EncoderNext(s, ok) ==
  LET r == encoder_next(encBuffer, s, ok) IN
  /\ encCalls < MaxEncoderCalls
  /\ encCalls' = encCalls + 1
  /\ encBuffer' = r.buffer
  /\ encArrived' = IF s = None THEN encArrived ELSE Append(encArrived, s.value)
  /\ encLast' = [result |-> r.result, ok |-> ok]

\* OpusEncoder::new
EncoderInit ==
  /\ encBuffer = <<>>
  /\ encArrived = <<>>
  /\ encCalls = 0
  /\ encLast = [result |-> None, ok |-> TRUE]

----------------------------------------------------------------------------
(* Average<N, S>: common/src/rolling_avg.rs.  A sample is a multiple of one *)
(* half, written as its number of halves; a result of avg is a quotient     *)
(* num / den.  The output type O is a float type, in which the sums and the *)
(* quotient of the model's small values are exact, or an integer type.      *)

\* the samples pushed, in halves: -1.5, 0.5 and 2
AverageSamples == {-3, 1, 4}

\* the output types avg is called with
OutputTypes == {"float", "int"}

\* integer division as Rust's `/` does it: toward zero
tdiv(a, b) == IF a >= 0 THEN a \div b ELSE -((-a) \div b)

\* s.as_() into an integer type, for a sample of h halves: toward zero
as_int(h) == tdiv(h, 2)

RECURSIVE sum(_)
\* Iterator::sum
sum(values) == IF values = <<>> THEN 0 ELSE Head(values) + sum(Tail(values))

\* Average::new
Average(idx, max_idx, samples) == [idx |-> idx, max_idx |-> max_idx, samples |-> samples]

\* Average::push
average_push(a, sample) ==
  Average((a.idx + 1) % AverageN,
          IF a.max_idx + 1 < AverageN THEN a.max_idx + 1 ELSE AverageN,
          [a.samples EXCEPT ![a.idx + 1] = sample])

\* an outcome of avg: a value num / den, NaN (0.0 / 0.0) or a panic
\* (integer division by zero)
Quotient(kind, num, den) == [kind |-> kind, num |-> num, den |-> den]

\* avg dividing by N whatever was pushed
avg_window(a, O) ==
  LET taken == SubSeq(a.samples, 1, a.max_idx)
      size == AverageN
  IN IF O = "float"
     THEN Quotient("value", sum(taken), 2 * size)
     ELSE Quotient("value", tdiv(sum([i \in 1..Len(taken) |-> as_int(taken[i])]), size), 1)

\* Average::avg::<O>: total = samples[..max_idx] converted to O and summed,
\* size = N.min(max_idx), total / size
avg(a, O) ==
  LET taken == SubSeq(a.samples, 1, a.max_idx)
      size == IF AverageN < a.max_idx THEN AverageN ELSE a.max_idx
  IN IF O = "float"
     THEN IF size = 0 THEN Quotient("nan", 0, 0)
          ELSE Quotient("value", sum(taken), 2 * size)
     ELSE IF size = 0 THEN Quotient("panic", 0, 0)
          ELSE Quotient("value",
                 tdiv(sum([i \in 1..Len(taken) |-> as_int(taken[i])]), size), 1)

\* a call of push(sample)
AveragePush(sample) ==
  LET a == average_push(Average(avgIdx, avgMaxIdx, avgSamples), sample) IN
  /\ Len(avgPushed) < MaxPushes
  /\ avgIdx' = a.idx
  /\ avgMaxIdx' = a.max_idx
  /\ avgSamples' = a.samples
  /\ avgPushed' = Append(avgPushed, sample)
  /\ avgLast' = [type |-> "", out |-> Quotient("none", 0, 0)]

\* a call of avg::<O>()
AverageAvg(O) ==
  /\ avgLast' = [type |-> O, out |-> avg(Average(avgIdx, avgMaxIdx, avgSamples), O)]
  /\ UNCHANGED <<avgIdx, avgMaxIdx, avgSamples, avgPushed>>

\* Average::new
AverageInit ==
  /\ avgIdx = 0
  /\ avgMaxIdx = 0
  /\ avgSamples = [i \in 1..AverageN |-> 0]
  /\ avgPushed = <<>>
  /\ avgLast = [type |-> "", out |-> Quotient("none", 0, 0)]

----------------
(* SeqNum comparison on sampled operands *)

\* 16-bit values within SeqSpread of 0, 2^14, 2^15, 3 * 2^14 and 2^16 - 1
SeqSamples ==
  (0..SeqSpread)
    \cup ((16384 - SeqSpread)..(16384 + SeqSpread))
    \cup ((32768 - SeqSpread)..(32768 + SeqSpread))
    \cup ((49152 - SeqSpread)..(49152 + SeqSpread))
    \cup ((U16Modulus - 1 - SeqSpread)..(U16Modulus - 1))

\* SeqNum(seqA).cmp(&SeqNum(seqB)) and the reverse comparison
SeqCompare ==
  /\ seqOrd = "Unset"
  /\ seqOrd' = cmp(seqA, seqB)
  /\ seqRev' = cmp(seqB, seqA)
  /\ UNCHANGED <<seqA, seqB, seqSum, seqAcc>>

\* no addition made yet
NoSum == -1
NotAssigned == [state |-> "Unset", value |-> NoSum]

\* SeqNum(seqA) + seqB, and s += seqB on s = SeqNum(seqA)
SeqAdd ==
  /\ seqSum = NoSum
  /\ seqSum' = add(seqA, seqB)
  /\ seqAcc' \in add_assign(seqA, seqB)
  /\ UNCHANGED <<seqA, seqB, seqOrd, seqRev>>

SeqIdle ==
  /\ seqA = 0 /\ seqB = 0 /\ seqOrd = "Unset" /\ seqRev = "Unset"
  /\ seqSum = NoSum /\ seqAcc = NotAssigned

SeqInit ==
  /\ seqA \in SeqSamples
  /\ seqB \in SeqSamples
  /\ seqOrd = "Unset"
  /\ seqRev = "Unset"
  /\ seqSum = NoSum
  /\ seqAcc = NotAssigned

----------------------------------------------------------------------------------------------------------------------------------------
(* Specifications *)

\* the addresses that send while the clock runs
TimedAddrs == {1, 2}
\* the datagrams they send: each of them connects under the name "a"
TimedDatagrams == Datagrams \ {to_bytes(Connect(<<98>>))}

\* no Voice received or sent yet
OrderInit ==
  /\ relIn = [a \in Addrs |-> [b \in Addrs |-> <<>>]]
  /\ relOut = [a \in Addrs |-> [b \in Addrs |-> <<>>]]
  /\ relCount = 0

\* the parts added last, before their first step
RestInit ==
  /\ LockInit /\ MicInit /\ ServiceInit /\ EncoderInit /\ AverageInit /\ OrderInit
  /\ ThreadsInit /\ WindowIdle /\ FramesInit

Init == ServerInit /\ SeqIdle /\ ClientInit /\ MixerInit /\ SessionInit /\ SendInit /\ RestInit

\* the event loop with the clock running
Next ==
  \/ Start /\ UNCHANGED exceptServer
  \/ \E t \in WakeTimes : Heartbeat(t) /\ UNCHANGED exceptServer
  \/ \E addr \in TimedAddrs : \E bytes \in TimedDatagrams : \E t \in WakeTimes :
       Recv(addr, bytes, t) /\ UNCHANGED exceptServer

Spec == Init /\ [][Next]_vars

\* the event loop within one instant, every address sending
NextFanout ==
  \/ Start /\ UNCHANGED exceptServer
  \/ Heartbeat(now) /\ UNCHANGED exceptServer
  \/ \E addr \in Addrs : \E bytes \in Datagrams :
       Recv(addr, bytes, now) /\ UNCHANGED exceptServer

SpecFanout == Init /\ [][NextFanout]_vars

\* the ids of the users present once the server has run for long: below and
\* beyond what a u8 holds
RelayIds == {0, PeerIdModulus - 1, PeerIdModulus, RelayCounter - 1}

\* the tables of a server that has accepted RelayCounter connects: every
\* address present holds an id of its own, its last reply is now
RelayTables ==
  UNION {{[a \in S |-> User(f[a], <<97>>, a, 0)] :
            f \in {g \in [S -> RelayIds] : \A x, y \in S : g[x] = g[y] => x = y}} :
         S \in SUBSET Addrs}

\* Server::service after RelayCounter connects, the users of all other ids
\* gone again
RelayInit ==
  /\ running = TRUE
  /\ users \in RelayTables
  /\ counter = RelayCounter
  /\ now = 0
  /\ nextTick = 0
  /\ last = [addr |-> NoAddr, type |-> "Start"]
  /\ out = NoSends
  /\ assigned = [i \in 1..RelayCounter |-> i - 1]

InitRelay == RelayInit /\ SeqIdle /\ ClientInit /\ MixerInit /\ SessionInit /\ SendInit /\ RestInit

\* the event loop of the long-running server within one instant
NextRelay ==
  \/ Heartbeat(now) /\ UNCHANGED exceptServer
  \/ \E addr \in Addrs : \E bytes \in Datagrams :
       Recv(addr, bytes, now) /\ UNCHANGED exceptServer

SpecRelay == InitRelay /\ [][NextRelay]_vars

\* what a Voice carries besides the peer id
payload(seq_num, samples) == <<seq_num, samples>>

\* the payloads of the Voice datagrams among `sent` that carry peer id `id`
relayed(sent, id) ==
  LET voices == SelectSeq(sent, LAMBDA x : x.type = "Voice" /\ x.packet.peer_id = id)
  IN [i \in 1..Len(voices) |-> payload(voices[i].packet.seq_num, voices[i].packet.data)]

\* the histories after a step that received `command` (None: no message)
\* from addr, left the table `after` and sent `sent`: a pair's histories are
\* emptied when one of the two is absent
Histories(addr, command, after, sent) ==
  LET voice == command # None /\ command.type = "Voice" /\ addr \in DOMAIN users
      both(a, b) == a \in DOMAIN after /\ b \in DOMAIN after /\ a # b
  IN /\ relIn' = [a \in Addrs |-> [b \in Addrs |->
                    IF ~both(a, b) THEN <<>>
                    ELSE IF voice /\ a = addr /\ b \in DOMAIN users
                    THEN Append(relIn[a][b], payload(command.seq_num, command.samples))
                    ELSE relIn[a][b]]]
     /\ relOut' = [a \in Addrs |-> [b \in Addrs |->
                     IF ~both(a, b) THEN <<>>
                     ELSE relOut[a][b] \o relayed(sent[b], peer_id(after[a]))]]
     /\ relCount' = IF voice THEN relCount + 1 ELSE relCount

\* Server::service, recv branch, with the histories kept
OrderRecv(addr, bytes) ==
  /\ Recv(addr, bytes, now)
  /\ (Decoded[bytes] # None /\ Decoded[bytes].type = "Voice") => relCount < MaxRelays
  /\ Histories(addr, Decoded[bytes], users', out')

\* Server::service, heartbeat branch, with the histories kept
OrderTick ==
  /\ Heartbeat(now)
  /\ Histories(NoAddr, None, users', out')

\* the addresses that send in the runs with histories
OrderAddrs == {1, 2}

\* the datagrams of users that join, speak and leave
OrderDatagrams ==
  {to_bytes(m) : m \in {Connect(<<97>>), Disconnect,
                        ClientVoice(0, <<7>>), ClientVoice(U16Modulus - 1, <<>>)}}

\* the event loop within one instant, the Voice messages received and sent
\* recorded for every pair of users
NextOrder ==
  \/ Start /\ UNCHANGED exceptServer
  \/ OrderTick /\ UNCHANGED exceptOrder
  \/ \E addr \in OrderAddrs : \E bytes \in OrderDatagrams :
       OrderRecv(addr, bytes) /\ UNCHANGED exceptOrder

SpecOrder == Init /\ [][NextOrder]_vars

InitSeq == ServerInit /\ SeqInit /\ ClientInit /\ MixerInit /\ SessionInit /\ SendInit /\ RestInit

NextSeq ==
  \/ SeqCompare /\ UNCHANGED exceptSeq
  \/ SeqAdd /\ UNCHANGED exceptSeq

\* a client session after a handshake the server acknowledged: frames to
\* send, Voice datagrams to receive
NextVoice ==
  \/ ClientConnect /\ UNCHANGED exceptClient
  \/ ClientHandshake(server_to_bytes(Pong)) /\ UNCHANGED exceptClient
  \/ ClientService /\ UNCHANGED exceptClient
  \/ \E frame \in Frames \cup {NoFrame} :
       ClientMic(frame, MaxVoices) /\ UNCHANGED exceptClient
  \/ ClientRecv(server_to_bytes(Voice(AudioPacket(5, 1, <<7>>))))
       /\ UNCHANGED exceptClient
  \/ ClientRecvFailed /\ UNCHANGED exceptClient

SpecVoice == Init /\ [][NextVoice]_vars

\* a client from its construction on, any datagram arriving
NextClient ==
  \/ ClientConnect /\ UNCHANGED exceptClient
  \/ \E bytes \in ServerDatagrams :
       ClientHandshake(bytes) /\ UNCHANGED exceptClient
  \/ ClientHandshakeFailed /\ UNCHANGED exceptClient
  \/ ClientService /\ UNCHANGED exceptClient
  \/ \E frame \in Frames \cup {NoFrame} :
       ClientMic(frame, ShortVoices) /\ UNCHANGED exceptClient
  \/ \E bytes \in ServerDatagrams :
       ClientRecv(bytes) /\ UNCHANGED exceptClient
  \/ ClientRecvFailed /\ UNCHANGED exceptClient

SpecClient == Init /\ [][NextClient]_vars

\* the mixer: peers come and go, frames arrive, the output callback pulls
NextMixer ==
  \/ \E id \in PeerIds :
       MixerAddPeer(id) /\ UNCHANGED exceptMixer
  \/ \E id \in PeerIds :
       MixerRemovePeer(id) /\ UNCHANGED exceptMixer
  \/ \E peer \in PeerIds : \E packet \in Packets :
       MixerPush(peer, packet) /\ UNCHANGED exceptMixer
  \/ MixerNext /\ UNCHANGED exceptMixer

SpecMixer == Init /\ [][NextMixer]_vars

SpecSeq == InitSeq /\ [][NextSeq]_vars

\* the connection worker, the application sending it inputs, any datagram
\* arriving, the output callback pulling from the worker's mixer
NextSession ==
  \/ SessionStart /\ UNCHANGED exceptSession
  \/ \E input \in Inputs : AppSend(input) /\ UNCHANGED exceptSession
  \/ SessionInput /\ UNCHANGED exceptSession
  \/ \E bytes \in SessionDatagrams : SessionHandshake(bytes) /\ UNCHANGED exceptSession
  \/ SessionHandshakeFailed /\ UNCHANGED exceptSession
  \/ \E bytes \in SessionDatagrams : SessionRecv(bytes) /\ UNCHANGED exceptSession
  \/ SessionRecvFailed /\ UNCHANGED exceptSession
  \/ \E frame \in Frames \cup {NoFrame} :
       SessionMic(frame, SessionVoices) /\ UNCHANGED exceptSession
  \/ SessionPlay /\ UNCHANGED exceptSession

SpecSession == Init /\ [][NextSession]_vars

\* the event loop within one instant, any one address unreachable: send_to
\* returns Err for it
NextUnsent ==
  \/ Start /\ UNCHANGED exceptServer
  \/ HeartbeatAlive(now) /\ UNCHANGED exceptSend
  \/ \E addr \in Addrs : \E bytes \in Datagrams : \E failed \in Addrs \cup {NoAddr} :
       RecvUnsent(addr, bytes, now, failed) /\ UNCHANGED exceptSend

SpecUnsent == Init /\ [][NextUnsent]_vars

\* the output callback and the control thread, each at its own pace
NextLocks ==
  \/ \E op \in LockCalls : \E id \in PeerIds : CtlCall(op, id) /\ UNCHANGED exceptLocks
  \/ CtlAddSourceLock /\ UNCHANGED exceptLocks
  \/ CtlAddSourcePush /\ UNCHANGED exceptLocks
  \/ CtlAddPeerLock /\ UNCHANGED exceptLocks
  \/ CtlAddPeerCheck /\ UNCHANGED exceptLocks
  \/ CtlAddPeerWrite /\ UNCHANGED exceptLocks
  \/ CtlAddPeerInsert /\ UNCHANGED exceptLocks
  \/ CtlRemovePeerWrite /\ UNCHANGED exceptLocks
  \/ CtlRemovePeerLock /\ UNCHANGED exceptLocks
  \/ CtlRemovePeerRemove /\ UNCHANGED exceptLocks
  \/ CtlPushLock /\ UNCHANGED exceptLocks
  \/ \E ok \in BOOLEAN : CtlPushCheck(ok) /\ UNCHANGED exceptLocks
  \/ CtlPushRead /\ UNCHANGED exceptLocks
  \/ CtlPushSlice /\ UNCHANGED exceptLocks
  \/ CbSample /\ UNCHANGED exceptLocks
  \/ CbLockSources /\ UNCHANGED exceptLocks
  \/ CbCloneSources /\ UNCHANGED exceptLocks
  \/ CbRead /\ UNCHANGED exceptLocks
  \/ CbPop /\ UNCHANGED exceptLocks

SpecLocks == Init /\ [][NextLocks]_vars

\* the threads that share the mixer, each at its own pace
NextThreads ==
  \/ \E th \in ThreadIds : \E op \in ThreadCalls : \E id \in PeerIds :
       ThCall(th, op, id) /\ UNCHANGED exceptThreads
  \/ \E th \in ThreadIds : ThAcquire(th) /\ UNCHANGED exceptThreads
  \/ \E th \in ThreadIds : ThAddPeerCheck(th) /\ UNCHANGED exceptThreads
  \/ \E th \in ThreadIds : ThAddPeerInsert(th) /\ UNCHANGED exceptThreads
  \/ \E th \in ThreadIds : ThRemovePeerRemove(th) /\ UNCHANGED exceptThreads
  \/ \E th \in ThreadIds : \E ok \in BOOLEAN : ThPushCheck(th, ok) /\ UNCHANGED exceptThreads
  \/ \E th \in ThreadIds : \E ok \in BOOLEAN : ThPushDecode(th, ok) /\ UNCHANGED exceptThreads
  \/ \E th \in ThreadIds : ThPushSlice(th) /\ UNCHANGED exceptThreads
  \/ \E th \in ThreadIds : ThNextPop(th) /\ UNCHANGED exceptThreads

SpecThreads == Init /\ [][NextThreads]_vars

InitWindow ==
  /\ ServerInit /\ SeqIdle /\ ClientInit /\ MixerInit /\ SessionInit /\ SendInit
  /\ LockInit /\ MicInit /\ ServiceInit /\ EncoderInit /\ AverageInit /\ OrderInit
  /\ ThreadsInit /\ WindowInit /\ FramesInit

\* the three numbers of a window compared with each other
NextWindow == WindowCompare /\ UNCHANGED exceptWindow

SpecWindow == InitWindow /\ [][NextWindow]_vars

\* the calls of the frame-sorting mixer in any order
NextFrames ==
  \/ \E id \in FramePeerIds : FmAddPeer(id) /\ UNCHANGED exceptFrames
  \/ \E peer \in FramePeerIds : \E seq_num \in FrameSeqNums : \E whole \in BOOLEAN :
       FmPushData(peer, seq_num, whole) /\ UNCHANGED exceptFrames
  \/ FmTick /\ UNCHANGED exceptFrames

SpecFrames == Init /\ [][NextFrames]_vars

\* the input callback and the receiver of the mic channel
NextMic ==
  \/ \E channels \in MicChannelCounts : MicBuild(channels) /\ UNCHANGED exceptMic
  \/ \E data \in MicBuffers : MicBegin(data) /\ UNCHANGED exceptMic
  \/ MicOffer /\ UNCHANGED exceptMic
  \/ MicTake /\ UNCHANGED exceptMic
  \/ MicClose /\ UNCHANGED exceptMic

SpecMic == Init /\ [][NextMic]_vars

\* the audio service and its handle
NextService ==
  \/ \E m \in Messages : HandleSend(m) /\ UNCHANGED exceptService
  \/ HandleDrop /\ UNCHANGED exceptService
  \/ ServiceRecv /\ UNCHANGED exceptService

SpecService == Init /\ [][NextService]_vars

\* the encoder called again and again, its source giving a sample or not
NextEncoder ==
  \E s \in {None} \cup {Some(v) : v \in EncoderSamples} : \E ok \in BOOLEAN :
    EncoderNext(s, ok) /\ UNCHANGED exceptEncoder

SpecEncoder == Init /\ [][NextEncoder]_vars

\* an Average pushed to and asked for its average in either output type
NextAverage ==
  \/ \E sample \in AverageSamples : AveragePush(sample) /\ UNCHANGED exceptAverage
  \/ \E O \in OutputTypes : AverageAvg(O) /\ UNCHANGED exceptAverage

SpecAverage == Init /\ [][NextAverage]_vars

\* the steps the worker takes by itself: the executor keeps polling the
\* worker's future, rx.select_next_some() completes while an input is queued
\* and mic.next() completes with a frame or with None
SessionWorker ==
  \/ SessionStart /\ UNCHANGED exceptSession
  \/ SessionInput /\ UNCHANGED exceptSession
  \/ \E frame \in Frames \cup {NoFrame} :
       SessionMic(frame, SessionVoices) /\ UNCHANGED exceptSession

\* the connection worker, never left unscheduled while it has a step to take
SpecSessionFair == Init /\ [][NextSession]_vars /\ WF_vars(SessionWorker)

----------------------------------------------------------------------------
(* Properties *)

\* how often x occurs in the sequence seq
Count(seq, x) == Cardinality({i \in 1..Len(seq) : seq[i] = x})

\* the step handles the decoded command m from address a
Handles(a, m) ==
  /\ last' = [addr |-> a, type |-> m.type]
  /\ handle_command(a, m, now')

\* C1: a Voice received from a present address A is sent exactly once, as a
\* Voice datagram, to every present address other than A, and never to A.
C1_FanoutExclusion ==
  [][\A a \in Addrs : \A m \in ClientMessages :
       (m.type = "Voice" /\ a \in DOMAIN users /\ Handles(a, m))
         => /\ \A b \in DOMAIN users \ {a} :
                 Len(out'[b]) = 1 /\ out'[b][1].type = "Voice"
            /\ out'[a] = <<>>]_vars

\* a Voice from a present address has just been relayed to two other addresses
C1_Witness ==
  /\ last.type = "Voice"
  /\ last.addr \in DOMAIN users
  /\ out[last.addr] = <<>>
  /\ Cardinality({b \in DOMAIN users : Len(out[b]) = 1 /\ out[b][1].type = "Voice"}) = 2

\* C2: a Connect{name} from an absent address inserts a user for it with an id
\* never given before, sends it one Pong and one Connected(e) for every user e
\* already present and none about itself, and sends Connected(new user) once
\* to every address already present and not to the new one.
C2_Connect ==
  [][\A a \in Addrs : \A m \in ClientMessages :
       (m.type = "Connect" /\ a \notin DOMAIN users /\ Handles(a, m))
         => /\ DOMAIN users' = DOMAIN users \cup {a}
            /\ \A b \in DOMAIN users : users'[b] = users[b]
            /\ users'[a].username = m.username
            /\ users'[a].addr = a
            /\ \A i \in 1..Len(assigned) : assigned[i] # users'[a].id
            /\ \A b \in DOMAIN users : users[b].id # users'[a].id
            /\ Count(out'[a], Pong) = 1
            /\ \A e \in DOMAIN users : Count(out'[a], Connected(info(users[e]))) = 1
            /\ Count(out'[a], Connected(info(users'[a]))) = 0
            /\ Len(out'[a]) = 1 + Cardinality(DOMAIN users)
            /\ \A b \in DOMAIN users : out'[b] = <<Connected(info(users'[a]))>>]_vars

\* a third user has just connected: it got Pong and two Connected, and the two
\* users before it got its Connected
C2_Witness ==
  /\ last.type = "Connect"
  /\ Cardinality(DOMAIN users) = 3
  /\ Len(out[last.addr]) = 3
  /\ \A b \in DOMAIN users \ {last.addr} :
       out[b] = <<Connected(info(users[last.addr]))>>

\* the step handles a Connect from an address that is in the table
DuplicateConnect(a, m) == m.type = "Connect" /\ a \in DOMAIN users /\ Handles(a, m)

\* C3 as stated: a Connect from an address already in the table leaves the
\* table unchanged (same stored records), assigns no id and sends nothing.
C3_Original ==
  [][\A a \in Addrs : \A m \in ClientMessages :
       DuplicateConnect(a, m)
         => /\ users' = users
            /\ counter' = counter
            /\ assigned' = assigned
            /\ out' = NoSends]_vars

\* C3 amended: a Connect from an address already in the table leaves the
\* membership and every record unchanged except that the last_reply of that
\* address's user becomes the time of receipt; it assigns no id and sends
\* nothing.
C3_Amended ==
  [][\A a \in Addrs : \A m \in ClientMessages :
       DuplicateConnect(a, m)
         => /\ DOMAIN users' = DOMAIN users
            /\ \A b \in DOMAIN users \ {a} : users'[b] = users[b]
            /\ users'[a] = [users[a] EXCEPT !.last_reply = now']
            /\ counter' = counter
            /\ assigned' = assigned
            /\ out' = NoSends]_vars

\* a second Connect from a present address has just been handled, after time
\* has passed, beside another user
C3_Witness ==
  /\ last.type = "Connect"
  /\ out = NoSends
  /\ last.addr \in DOMAIN users
  /\ users[last.addr].last_reply = now
  /\ now > 0
  /\ \E b \in DOMAIN users : users[b].last_reply < now

\* C4 as stated: after a heartbeat tick every user silent for longer than the
\* timeout is absent and Disconnected(user) has been sent exactly once to
\* every remaining user.
C4_HeartbeatEviction ==
  [][\A t \in 0..MaxTime :
       Heartbeat(t)
         => \A a \in DOMAIN users :
              elapsed(users[a].last_reply, t) > Timeout
                => /\ a \notin DOMAIN users'
                   /\ \A b \in DOMAIN users' :
                        Count(out'[b], Disconnected(info(users[a]))) = 1]_vars

\* C5: a Disconnect from a present address removes its user and sends
\* Disconnected(user) exactly once to every user that remains; the address is
\* then absent: its Ping and Voice are dropped, and only a Connect from it
\* brings it back.
C5_Disconnect ==
  /\ [][\A a \in Addrs : \A m \in ClientMessages :
          (m.type = "Disconnect" /\ a \in DOMAIN users /\ Handles(a, m))
            => /\ DOMAIN users' = DOMAIN users \ {a}
               /\ \A b \in DOMAIN users' :
                    /\ users'[b] = users[b]
                    /\ out'[b] = <<Disconnected(info(users[a]))>>]_vars
  /\ [][\A a \in Addrs : \A m \in ClientMessages :
          (last = [addr |-> a, type |-> "Disconnect"] /\ a \notin DOMAIN users
             /\ m.type \in {"Ping", "Voice"} /\ Handles(a, m))
            => a \notin DOMAIN users' /\ out' = NoSends]_vars
  /\ [][\A a \in Addrs :
          (a \notin DOMAIN users /\ a \in DOMAIN users')
            => last' = [addr |-> a, type |-> "Connect"]]_vars

\* a user has just disconnected and the two remaining users were told
C5_Witness ==
  /\ last.type = "Disconnect"
  /\ last.addr \notin DOMAIN users
  /\ Cardinality(DOMAIN users) = 2
  /\ \A b \in DOMAIN users :
       Len(out[b]) = 1 /\ out[b][1].type = "Disconnected"

\* C6: a Ping from a present address refreshes that user's last_reply, sends
\* one Pong to that address and nothing to any other; membership, ids and the
\* id counter are unchanged.
C6_Ping ==
  [][\A a \in Addrs : \A m \in ClientMessages :
       (m.type = "Ping" /\ a \in DOMAIN users /\ Handles(a, m))
         => /\ users' = [users EXCEPT ![a] = [@ EXCEPT !.last_reply = now']]
            /\ out'[a] = <<Pong>>
            /\ \A b \in Addrs \ {a} : out'[b] = <<>>
            /\ counter' = counter
            /\ assigned' = assigned]_vars

\* a Ping from a present address has just been answered, later than the last
\* message of another user
C6_Witness ==
  /\ last.type = "Ping"
  /\ last.addr \in DOMAIN users
  /\ out[last.addr] = <<Pong>>
  /\ users[last.addr].last_reply = now
  /\ \E b \in DOMAIN users : users[b].last_reply < now

\* C7: a Ping, Voice or Disconnect from an address that is not in the table
\* is dropped: table and id counter unchanged, nothing sent.
C7_UnknownSender ==
  [][\A a \in Addrs : \A m \in ClientMessages :
       (m.type \in {"Ping", "Voice", "Disconnect"} /\ a \notin DOMAIN users
          /\ Handles(a, m))
         => /\ users' = users
            /\ counter' = counter
            /\ assigned' = assigned
            /\ out' = NoSends]_vars

\* a Voice from an address that is not in the table has just been handled
\* while another user is present
C7_Witness ==
  /\ last.type = "Voice"
  /\ last.addr \notin DOMAIN users
  /\ DOMAIN users # {}
  /\ out = NoSends

\* C8: a datagram that does not decode changes nothing (table with every
\* last_reply, id counter) and sends nothing; the server keeps running, and
\* the next valid Connect or Ping is handled as usual.
C8_Malformed ==
  /\ [][\A a \in Addrs : \A d \in Datagrams :
          (Decoded[d] = None /\ last' = [addr |-> a, type |-> "None"]
             /\ Recv(a, d, now'))
            => /\ users' = users
               /\ counter' = counter
               /\ assigned' = assigned
               /\ nextTick' = nextTick
               /\ running'
               /\ out' = NoSends]_vars
  /\ [][\A a \in Addrs : \A m \in ClientMessages :
          (last.type = "None" /\ Handles(a, m))
            => /\ (m.type = "Connect" /\ a \notin DOMAIN users)
                    => (a \in DOMAIN users' /\ Count(out'[a], Pong) = 1)
               /\ (m.type = "Ping" /\ a \in DOMAIN users)
                    => out'[a] = <<Pong>>]_vars

\* a malformed datagram from a present address has just been dropped, later
\* than that user's last valid message
C8_Witness ==
  /\ last.type = "None"
  /\ last.addr \in DOMAIN users
  /\ users[last.addr].last_reply < now
  /\ out = NoSends

C10_SeqOrder ==
  (seqOrd # "Unset" /\ (seqA - seqB) % U16Modulus # U16Modulus \div 2)
    => /\ Cardinality({k \in 1..3 :
                         \/ k = 1 /\ seqOrd = "Greater"
                         \/ k = 2 /\ seqRev = "Greater"
                         \/ k = 3 /\ seqA = seqB}) = 1
       /\ seqA # seqB
            => (seqOrd = "Greater" <=> (seqA - seqB) % U16Modulus < U16Modulus \div 2)

\* a numerically smaller value has compared greater across the wrap
C10_Witness ==
  /\ seqOrd = "Greater"
  /\ seqA < seqB
  /\ (seqA - seqB) % U16Modulus < U16Modulus \div 2

\* C11 as stated: for a # b, SeqNum(a) > SeqNum(b) iff a > b and a - b <= 2^15,
\* or a < b and b - a > 2^15, for every pair of 16-bit values.
C11_Original ==
  (seqOrd # "Unset" /\ seqA # seqB)
    => (seqOrd = "Greater"
          <=> \/ seqA > seqB /\ seqA - seqB <= 32768
              \/ seqA < seqB /\ seqB - seqA > 32768)

\* C11 (amended): for a # b, SeqNum(a) > SeqNum(b) iff a > b and
\* a - b <= 2^15 - 1, or a < b and b - a > 2^15 - 1, for every pair of
\* 16-bit values; of two values exactly 2^15 apart the numerically smaller
\* one is the greater.
C11_Amended ==
  (seqOrd # "Unset" /\ seqA # seqB)
    => /\ seqOrd = "Greater"
            <=> \/ seqA > seqB /\ seqA - seqB <= 32767
                \/ seqA < seqB /\ seqB - seqA > 32767
       /\ (seqA - seqB) % U16Modulus = 32768
            => (seqOrd = "Greater" <=> seqA < seqB)

\* two values exactly 2^15 apart have been compared, the larger one on the left
C11_Witness ==
  /\ seqOrd = "Less"
  /\ seqA - seqB = 32768

\* C12: for a # b exactly one of a > b and a < b holds, a > b holds iff
\* b < a, also for pairs exactly 2^15 apart; 0 > 65535, 32767 > 65535 and
\* 32768 is not greater than 65535.
C12_Antisymmetric ==
  seqOrd # "Unset"
    => /\ seqA # seqB
            => /\ (seqOrd = "Greater") # (seqOrd = "Less")
               /\ seqOrd = "Greater" <=> seqRev = "Less"
               /\ seqOrd = "Less" <=> seqRev = "Greater"
       /\ (seqA = 0 /\ seqB = 65535) => seqOrd = "Greater"
       /\ (seqA = 32767 /\ seqB = 65535) => seqOrd = "Greater"
       /\ (seqA = 32768 /\ seqB = 65535) => seqOrd # "Greater"

\* the pair (32767, 65535), exactly 2^15 apart, has been compared both ways
C12_Witness ==
  /\ seqA = 32767
  /\ seqB = 65535
  /\ seqOrd = "Greater"
  /\ seqRev = "Less"

\* C13: for every SeqNum s and 16-bit k, both s + k and s += k yield
\* (s + k) mod 2^16 and neither fails; SeqNum(65535) advanced by 1 is SeqNum(0).
C13_AddWraps ==
  seqSum # NoSum
    => /\ seqSum = (seqA + seqB) % U16Modulus
       /\ seqAcc = Assigned((seqA + seqB) % U16Modulus)
       /\ (seqA = 65535 /\ seqB = 1) => (seqSum = 0 /\ seqAcc = Assigned(0))

\* C14: the k-th Voice a client session sends (k from 0) carries k mod 2^16,
\* each sent seq_num is greater in wraparound order than the one sent before
\* it, also from 65535 to 0, and the counter changes only in a step that
\* sends a Voice.
C14_VoiceNumbering ==
  [][/\ cliVoices' # cliVoices
          => /\ cliVoices' = cliVoices + 1
             /\ cliSent' = cliVoices % U16Modulus
             /\ cliVoices > 0 => gt(cliSent', cliSent)
     /\ cliSeq' # cliSeq => cliVoices' = cliVoices + 1]_vars

\* the Voice after the one numbered 65535 has been sent, numbered 0
C14_Witness ==
  /\ cliVoices = U16Modulus + 1
  /\ cliSent = 0
  /\ cliLast.kind = "Voice"

\* C20: after the Connect is sent, the client becomes connected iff the first
\* datagram it receives decodes as Pong; a datagram of any other message kind
\* makes connect report an error and leaves the client not connected; nothing
\* but the handshake makes the client connected.
C20_Handshake ==
  [][/\ (cliPhase = "Handshake" /\ cliLast'.event = "Handshake" /\ cliLast'.kind # "Err")
          => /\ cliConnected' <=> cliLast'.kind = "Pong"
             /\ cliLast'.kind = "Pong" => (cliPhase' = "Idle" /\ ~cliLast'.error)
             /\ cliLast'.kind \in {"Connected", "Disconnected", "Voice"}
                  => (cliLast'.error /\ ~cliConnected')
     /\ cliConnected' # cliConnected => cliPhase = "Handshake"]_vars

\* the first datagram after the Connect was a Voice: an error, not connected
C20_Witness ==
  /\ cliLast = [event |-> "Handshake", kind |-> "Voice", error |-> TRUE]
  /\ cliPhase = "Idle"
  /\ ~cliConnected

\* the sample a channel contributes to a mix: its oldest one, zero when it has run out
HeadOrZero(queue) == IF queue = <<>> THEN 0 ELSE Head(queue)

\* C15: from a channel just created, before any producer push, exactly
\* latency.samples samples can be popped, each of them zero, and the pop
\* after them finds the channel empty.
C15_Preroll ==
  [][mixLast'.op = "next"
       => \A p \in DOMAIN mixChannels :
            mixPops[p] # Pushed
              => mixLast'.popped[p] =
                   IF mixPops[p] < LatencySamples THEN Some(0) ELSE None]_vars

\* a channel nothing was pushed to has been popped once more than its pre-roll
C15_Witness ==
  /\ mixLast.op = "next"
  /\ \E p \in DOMAIN mixPops :
       /\ mixPops[p] = LatencySamples + 1
       /\ mixLast.popped[p] = None

\* C16: with two peers in the mixer, next() returns the sum of the oldest
\* sample of either channel, a channel that has run out counting as zero, and
\* takes those samples off; it returns None iff both channels are empty.
C16_Additivity ==
  [][(mixLast'.op = "next" /\ DOMAIN mixChannels = PeerIds)
       => /\ mixLast'.result =
               IF \A p \in PeerIds : mixChannels[p] = <<>>
               THEN None
               ELSE Some(HeadOrZero(mixChannels[1]) + HeadOrZero(mixChannels[2]))
          /\ \A p \in PeerIds :
               mixChannels'[p] = SubSeq(mixChannels[p], 2, Len(mixChannels[p]))]_vars

\* next() has added two decoded samples, 2 of one peer and 1 of the other
C16_Witness ==
  /\ mixLast.op = "next"
  /\ DOMAIN mixLast.popped = PeerIds
  /\ mixLast.popped[1] = Some(2)
  /\ mixLast.popped[2] = Some(1)
  /\ mixLast.result = Some(3)

\* C17: add_peer(id) for a peer that exists adds no channel and no decoder,
\* leaves every channel's queued samples as they are and resets that peer's
\* decoder only.
C17_AddPeerIdempotent ==
  [][(mixLast'.op = "add_peer" /\ mixLast'.peer \in DOMAIN mixDecoders)
       => /\ mixChannels' = mixChannels
          /\ DOMAIN mixDecoders' = DOMAIN mixDecoders
          /\ mixDecoders'[mixLast'.peer] = "Fresh"
          /\ \A q \in DOMAIN mixDecoders \ {mixLast'.peer} :
               mixDecoders'[q] = mixDecoders[q]
          /\ mixPeers' = mixPeers]_vars

\* add_peer has been called for a peer whose channel holds decoded samples
C17_Witness ==
  /\ mixLast.op = "add_peer"
  /\ mixLast.peer \in DOMAIN mixChannels
  /\ \E i \in 1..Len(mixChannels[mixLast.peer]) : mixChannels[mixLast.peer][i] # 0
  /\ mixDecoders[mixLast.peer] = "Fresh"

\* C18: remove_peer(id) removes the peer's decoder and channel, and a frame
\* pushed for a removed peer afterwards is discarded: it changes no channel
\* and no decoder and does not bring the peer back.
C18_RemovePeer ==
  [][/\ mixLast'.op = "remove_peer"
          => /\ mixLast'.peer \notin DOMAIN mixChannels'
             /\ mixLast'.peer \notin DOMAIN mixDecoders'
     /\ (mixLast'.op = "push" /\ mixLast'.peer \in mixRemoved)
          => /\ mixChannels' = mixChannels
             /\ mixDecoders' = mixDecoders]_vars

\* the channel of a peer as push finds it: an unknown peer gets the pre-roll
ChannelFound(peer) ==
  IF peer \in DOMAIN mixChannels
  THEN mixChannels[peer]
  ELSE [i \in 1..LatencySamples |-> 0]

\* push leaves the peer registered and the other peers as they were
PushKeepsPeers ==
  /\ DOMAIN mixChannels' = DOMAIN mixChannels \cup {mixLast'.peer}
  /\ DOMAIN mixDecoders' = DOMAIN mixChannels'
  /\ \A q \in DOMAIN mixChannels \ {mixLast'.peer} :
       /\ mixChannels'[q] = mixChannels[q]
       /\ mixDecoders'[q] = mixDecoders[q]

\* C19 as stated: push(peer, frame) adds an unknown peer with its pre-roll;
\* on decode success exactly the decoded samples are appended to the peer's
\* channel, on failure the channel is unchanged; the peer stays registered
\* and no other peer changes.
C19_Original ==
  [][mixLast'.op = "push"
       => /\ PushKeepsPeers
          /\ mixChannels'[mixLast'.peer] =
               IF decode(mixLast'.packet).ok
               THEN ChannelFound(mixLast'.peer) \o decode(mixLast'.packet).output
               ELSE ChannelFound(mixLast'.peer)]_vars

\* C19 (amended): as C19, but on decode success the decoded samples are
\* appended only as far as the channel has free slots (its capacity is
\* 2 x latency.samples): the first min(free, n) of them, the rest is dropped.
C19_Amended ==
  [][mixLast'.op = "push"
       => /\ PushKeepsPeers
          /\ LET found == ChannelFound(mixLast'.peer)
                 output == decode(mixLast'.packet).output
                 free == 2 * LatencySamples - Len(found)
             IN mixChannels'[mixLast'.peer] =
                  IF decode(mixLast'.packet).ok
                  THEN found \o [i \in 1..(IF free < Len(output) THEN free ELSE Len(output))
                                   |-> output[i]]
                  ELSE found]_vars

\* a frame has been pushed of which only the first sample fitted
C19_Witness ==
  /\ mixLast.op = "push"
  /\ mixLast.packet = <<1>>
  /\ Len(mixChannels[mixLast.peer]) = 2 * LatencySamples
  /\ mixChannels[mixLast.peer][2 * LatencySamples] = 1

\* C21: after the service loop handles Connected(u) the mixer has a peer for
\* u, after it handles Disconnected(u) the mixer has no peer for u, and a
\* Pong handled in the service loop changes nothing.
C21_RosterDispatch ==
  [][\A bytes \in SessionDatagrams :
       LET p == server_from_bytes(bytes) IN
       SessionRecv(bytes)
         => /\ p.type = "Connected"
                 => (p.info.id \in DOMAIN mixChannels' /\ p.info.id \in DOMAIN mixDecoders')
            /\ p.type = "Disconnected"
                 => (p.info.id \notin DOMAIN mixChannels'
                       /\ p.info.id \notin DOMAIN mixDecoders')
            /\ p = Pong
                 => UNCHANGED <<mixChannels, mixDecoders, mixPeers,
                                sesState, sesInbox, sesSeq, sesVoices>>]_vars

\* C22: once the application has sent Disconnect to a connected session, the
\* session eventually leaves the connected state, and from then on it sends
\* no further Voice.
C22_Termination ==
  /\ [](sesAsked => <>(sesState # "Connected"))
  /\ [][(sesAsked /\ sesState # "Connected") => sesVoices' = sesVoices]_vars

\* C24: a datagram that does not decode as a ServerMessage is dropped by the
\* service loop: the session stays connected and the mixer, the outbound
\* seq_num and the count of Voice messages sent are unchanged.
C24_MalformedDropped ==
  [][\A bytes \in SessionDatagrams :
       (server_from_bytes(bytes) = None /\ SessionRecv(bytes))
         => /\ sesState' = "Connected"
            /\ UNCHANGED <<mixChannels, mixDecoders, mixPeers, sesSeq, sesVoices>>]_vars

\* C23: when the send to one recipient of a broadcast fails, the server
\* keeps running, every other recipient of the broadcast still gets the
\* message, and the recipient whose send failed stays in the user table.
C23_SendFailure ==
  [][(srvFailed' # NoAddr /\ srvFailed' # last'.addr)
       => /\ ~srvPanicked'
          /\ srvFailed' \in DOMAIN users'
          /\ \A b \in DOMAIN users' \ {srvFailed', last'.addr} : Len(out'[b]) = 1]_vars

\* C25: the output callback is never waiting for a lock that the control
\* thread holds: neither for the source list while add_source holds it, nor
\* for the mixer's channels while add_peer or remove_peer holds them.
C25_NonBlocking ==
  /\ ~(cbPc = "sources.lock" /\ lkSources = "control")
  /\ ~(cbPc = "next.read" /\ lkChanWriter = "control")

\* C26: the input callback offers exactly the samples at the indices 0,
\* channels, 2 * channels, ... of its buffer, in order; every sample offered
\* is in the mic channel, was taken from it, or is counted in
\* dropped_mic_samples; and the callback can always take its next step,
\* whether or not the channel is full.
C26_MicConservation ==
  /\ micSent = [k \in 1..Len(micSent) |-> micData[(k - 1) * micChannels + 1]]
  /\ (micChannels # 0 /\ micIndex >= Len(micData))
       => Len(micSent) = (Len(micData) + micChannels - 1) \div micChannels
  /\ Len(micQueue) + micTaken + micDropped = micOffered
  /\ micIndex < Len(micData) => ENABLED MicOffer

\* a callback on a two-channel stream has offered the samples 1 and 3 of
\* its buffer; the channel is full and samples were dropped
C26_Witness ==
  /\ micChannels = 2
  /\ micIndex >= Len(micData)
  /\ micSent = <<1, 3>>
  /\ Len(micQueue) = MicCapacity
  /\ micDropped > 0

\* C27: the loop handles the messages in the order they were sent; Play and
\* Pause are passed to the input and to the output stream; once Stop is
\* handled, or the handle is dropped, the loop has ended and both streams
\* are dropped, and nothing sent afterwards is handled or changes a stream.
C27_ControlLoop ==
  /\ [](/\ Len(svcHandled) <= Len(svcSent)
        /\ svcHandled = SubSeq(svcSent, 1, Len(svcHandled))
        /\ svcRunning => svcSent = svcHandled \o svcQueue
        /\ \A i \in 1..(Len(svcHandled) - 1) : svcHandled[i] # "Stop"
        /\ (svcHandled # <<>> /\ svcHandled[Len(svcHandled)] = "Stop") => ~svcRunning
        /\ ~svcRunning => (svcInput = "dropped" /\ svcOutput = "dropped"))
  /\ [][/\ (svcHandled' # svcHandled /\ svcHandled'[Len(svcHandled')] = "Play")
             => (svcInput' = "playing" /\ svcOutput' = "playing")
        /\ (svcHandled' # svcHandled /\ svcHandled'[Len(svcHandled')] = "Pause")
             => (svcInput' = "paused" /\ svcOutput' = "paused")
        /\ ~svcRunning => UNCHANGED <<svcRunning, svcInput, svcOutput, svcHandled>>]_vars

\* Play was handled, then Stop; the Pause sent after that is not handled
C27_Witness ==
  /\ svcSent = <<"Play", "Stop", "Pause">>
  /\ svcHandled = <<"Play", "Stop">>
  /\ ~svcRunning
  /\ svcInput = "dropped"

\* the call of next() that this step is found frame_size samples in the
\* buffer once the sample it pulled, if any, was added
Accumulated ==
  Len(encBuffer) + (Len(encArrived') - Len(encArrived)) >= EncoderFrameSize

\* the frame_size samples that arrived last, in the order of arrival
LastFrame ==
  SubSeq(encArrived', Len(encArrived') - EncoderFrameSize + 1, Len(encArrived'))

\* C28 as stated: a call of next() pulls at most one sample; it returns the
\* frame encoded from the frame_size samples that arrived last exactly when
\* frame_size samples have accumulated, and None otherwise; fewer than
\* frame_size samples remain buffered after the call.
C28_Original ==
  [][/\ Len(encArrived') <= Len(encArrived) + 1
     /\ Accumulated => encLast'.result = Some(encode(LastFrame, TRUE).packet)
     /\ ~Accumulated => encLast'.result = None
     /\ Len(encBuffer') < EncoderFrameSize]_vars

\* C28, amended: as above, except that the call at which frame_size samples
\* have accumulated returns their frame only when the codec encodes it; when
\* the codec fails the samples are discarded all the same and the call
\* returns None.
C28_Amended ==
  [][/\ Len(encArrived') <= Len(encArrived) + 1
     /\ (Accumulated /\ encLast'.ok)
          => encLast'.result = Some(encode(LastFrame, TRUE).packet)
     /\ (Accumulated /\ ~encLast'.ok) => encLast'.result = None
     /\ ~Accumulated => encLast'.result = None
     /\ Len(encBuffer') < EncoderFrameSize]_vars

\* the second frame is returned, by a call later than the 2 * frame_size-th
\* (some calls found the source empty)
C28_Witness ==
  /\ encLast.result # None
  /\ Len(encArrived) = 2 * EncoderFrameSize
  /\ encCalls > Len(encArrived)
  /\ encBuffer = <<>>

\* the most recent min(k, N) of the k samples pushed
Recent ==
  LET k == Len(avgPushed)
      m == IF k < AverageN THEN k ELSE AverageN
  IN SubSeq(avgPushed, k - m + 1, k)

\* C29 as stated: after k >= 1 pushes avg() is the arithmetic mean of the
\* most recent min(k, N) samples pushed (num / den = sum / (2 * m), the
\* samples being counted in halves), whatever the output type.
C29_Original ==
  (avgLast.type # "" /\ Len(avgPushed) >= 1)
    => /\ avgLast.out.kind = "value"
       /\ avgLast.out.num * (2 * Len(Recent)) = sum(Recent) * avgLast.out.den

\* C29, amended: after k >= 1 pushes avg() is the mean of the most recent
\* min(k, N) samples pushed, computed in the output type: the arithmetic
\* mean for a float type; for an integer type the samples are converted one
\* by one (toward zero), summed, and the sum is divided toward zero.
C29_Amended ==
  /\ (avgLast.type = "float" /\ Len(avgPushed) >= 1)
       => /\ avgLast.out.kind = "value"
          /\ avgLast.out.num * (2 * Len(Recent)) = sum(Recent) * avgLast.out.den
  /\ (avgLast.type = "int" /\ Len(avgPushed) >= 1)
       => /\ avgLast.out.kind = "value"
          /\ avgLast.out.den = 1
          /\ avgLast.out.num =
               tdiv(sum([i \in 1..Len(Recent) |-> as_int(Recent[i])]), Len(Recent))

\* 2, -1.5 and 0.5 were pushed to an Average<2>: the 2 is overwritten and
\* the float average is -0.5
C29_Witness ==
  /\ AverageN = 2
  /\ avgPushed = <<4, -3, 1>>
  /\ avgLast.type = "float"
  /\ avgLast.out = Quotient("value", -2, 4)

\* C30: every Voice datagram the server relays carries the seq_num and the
\* audio bytes of the client's Voice message unchanged, and a peer_id equal to
\* the sender's id modulo 256.
C30_RelayFidelity ==
  [][\A a \in Addrs : \A m \in ClientMessages :
       (m.type = "Voice" /\ a \in DOMAIN users /\ Handles(a, m))
         => \A b \in Addrs : \A i \in 1..Len(out'[b]) :
              /\ out'[b][i].type = "Voice"
              /\ out'[b][i].packet.seq_num = m.seq_num
              /\ out'[b][i].packet.data = m.samples
              /\ out'[b][i].packet.peer_id = users[a].id % 256
              /\ out'[b][i].packet.peer_id \in 0..255]_vars

\* the Voice of a user whose id does not fit in 8 bits has just been relayed
\* with its audio bytes
C30_Witness ==
  /\ last.type = "Voice"
  /\ last.addr \in DOMAIN users
  /\ users[last.addr].id > 255
  /\ \E b \in DOMAIN users \ {last.addr} :
       /\ Len(out[b]) = 1
       /\ out[b][1].type = "Voice"
       /\ out[b][1].packet.data = <<7>>
       /\ out[b][1].packet.peer_id = users[last.addr].id - 256

\* C31: while no more than 256 users are present, the peer_id a relayed Voice
\* carries differs from the peer_id the packets of every other present user
\* carry.
C31_PeerIdCap ==
  [][\A a \in Addrs : \A m \in ClientMessages :
       (m.type = "Voice" /\ a \in DOMAIN users /\ Handles(a, m)
          /\ Cardinality(DOMAIN users) <= 256)
         => \A c \in DOMAIN users \ {a} : \A b \in Addrs : \A i \in 1..Len(out'[b]) :
              out'[b][i].type = "Voice"
                => out'[b][i].packet.peer_id # peer_id(users[c])]_vars

\* C32: the first datagram the server sends to an address that was absent is
\* the Pong answering its Connect, ahead of every Connected, Disconnected or
\* Voice, and a client reading it as the first datagram of its handshake is
\* connected.
C32_HandshakeOrder ==
  [][/\ \A a \in Addrs : \A m \in ClientMessages :
          (m.type = "Connect" /\ a \notin DOMAIN users /\ Handles(a, m))
            => /\ out'[a] # <<>>
               /\ out'[a][1] = Pong
               /\ LET p == server_from_bytes(server_to_bytes(out'[a][1]))
                  IN on_handshake(FALSE, p) = [connected |-> TRUE, error |-> FALSE]
     /\ \A b \in Addrs \ DOMAIN users :
          out'[b] # <<>> => (last'.type = "Connect" /\ last'.addr = b)]_vars

\* a Connect from an absent address has been answered while two users were
\* present: Pong first, the two Connected after it
C32_Witness ==
  /\ last.type = "Connect"
  /\ last.addr \in DOMAIN users
  /\ Len(out[last.addr]) = 3
  /\ out[last.addr][1] = Pong
  /\ out[last.addr][2].type = "Connected"
  /\ out[last.addr][3].type = "Connected"

\* C33: a valid message from a present address sets that user's last_reply to
\* the time it is handled, no step sets a last_reply back, and a heartbeat
\* tick removes no user whose last_reply is less than the timeout ago: a user
\* is never evicted while less than the timeout has elapsed since the last
\* valid message from its address.
C33_NoEviction ==
  /\ [][\A a \in Addrs : \A m \in ClientMessages :
          (a \in DOMAIN users /\ Handles(a, m) /\ a \in DOMAIN users')
            => users'[a].last_reply = now']_vars
  /\ [][\A b \in DOMAIN users \cap DOMAIN users' :
          users'[b].last_reply >= users[b].last_reply]_vars
  /\ [][\A t \in 0..MaxTime :
          Heartbeat(t)
            => \A a \in DOMAIN users :
                 elapsed(users[a].last_reply, t) < Timeout => a \in DOMAIN users']_vars

\* a tick has just removed nobody although a user present was last heard one
\* interval short of the timeout
C33_Witness ==
  /\ last.type = "Tick"
  /\ \E a \in DOMAIN users : elapsed(users[a].last_reply, now) = Timeout - HeartbeatInterval

\* C34: for a sender and a receiver that have both stayed present, the Voice
\* payloads of the sender the server has sent to the receiver are exactly
\* those it received from the sender, in the order received, each once.
C34_RelayOrder ==
  \A a \in Addrs : \A b \in Addrs : relOut[a][b] = relIn[a][b]

\* two different Voice messages of one sender have been relayed to a receiver
C34_Witness ==
  \E a \in DOMAIN users : \E b \in DOMAIN users :
    /\ Len(relOut[a][b]) >= 2
    /\ relOut[a][b][1] # relOut[a][b][2]

\* C35: after every call of add_peer, remove_peer and push the peers that have
\* a decoder are those that have a channel (one channel for each), and a
\* channel starts with latency.samples zero samples: it holds exactly those
\* when add_peer made it, and they come first when the push that made it added
\* its decoded frame behind them.
C35_PeerTable ==
  /\ [](DOMAIN mixDecoders = DOMAIN mixChannels)
  /\ [][\A id \in DOMAIN mixChannels' \ DOMAIN mixChannels :
          /\ Len(mixChannels'[id]) >= LatencySamples
          /\ \A i \in 1..LatencySamples : mixChannels'[id][i] = 0
          /\ (mixLast'.op = "add_peer" \/ ~decode(mixLast'.packet).ok)
               => Len(mixChannels'[id]) = LatencySamples]_vars

\* add_peer has just made the channel of a second peer, the decoder of the
\* first having decoded a packet
C35_Witness ==
  /\ mixLast.op = "add_peer"
  /\ mixLast.peer \in DOMAIN mixChannels
  /\ mixChannels[mixLast.peer] = [i \in 1..LatencySamples |-> 0]
  /\ mixPeers >= 2
  /\ \E q \in DOMAIN mixDecoders \ {mixLast.peer} : mixDecoders[q] = "Used"

\* the smaller of two numbers
Min(x, y) == IF x < y THEN x ELSE y

\* C36: a channel never holds more than 2 x latency.samples samples; a push of
\* n decoded samples into a channel with k free slots leaves what was queued
\* in place and puts the first min(k, n) of them behind it; a pop gives the
\* sample queued longest and leaves the others in their order, and gives None
\* on an empty channel.
C36_ChannelBound ==
  /\ [](\A p \in DOMAIN mixChannels : Len(mixChannels[p]) \in 0..(2 * LatencySamples))
  /\ [][(mixLast'.op = "push" /\ decode(mixLast'.packet).ok)
          => LET before == ChannelFound(mixLast'.peer)
                 after == mixChannels'[mixLast'.peer]
                 samples == decode(mixLast'.packet).output
                 k == 2 * LatencySamples - Len(before)
             IN /\ Len(after) = Len(before) + Min(k, Len(samples))
                /\ \A i \in 1..Len(before) : after[i] = before[i]
                /\ \A i \in 1..Min(k, Len(samples)) : after[Len(before) + i] = samples[i]]_vars
  /\ [][mixLast'.op = "next"
          => \A p \in DOMAIN mixChannels :
               IF mixChannels[p] = <<>>
               THEN mixLast'.popped[p] = None /\ mixChannels'[p] = <<>>
               ELSE /\ mixLast'.popped[p] = Some(mixChannels[p][1])
                    /\ Len(mixChannels'[p]) = Len(mixChannels[p]) - 1
                    /\ \A i \in 1..Len(mixChannels'[p]) :
                         mixChannels'[p][i] = mixChannels[p][i + 1]]_vars

\* a decoded sample that was queued behind the pre-roll has been popped, and
\* its channel is empty now
C36_Witness ==
  /\ mixLast.op = "next"
  /\ \E p \in DOMAIN mixChannels :
       /\ mixLast.popped[p] # None
       /\ mixLast.popped[p].value # 0
       /\ mixChannels[p] = <<>>

\* the thread is in a call and waits for a lock that cannot be granted
Waiting(th) == wanted(thPc[th]).lock # "none" /\ ~grantable(wanted(thPc[th]))

\* the thread is in a call and has a step to take
Running(th) == thPc[th] \notin {"idle", "panicked"} /\ ~Waiting(th)

\* C37: the calls of push, add_peer, remove_peer and next made by different
\* threads never wait for each other in a circle: whenever a call waits for a
\* lock of the mixer, the call of another thread is able to go on.
C37_DeadlockFree ==
  \A th \in ThreadIds : Waiting(th) => \E other \in ThreadIds \ {th} : Running(other)

\* the order of two offsets
OffsetOrder(x, y) == IF x = y THEN "Equal" ELSE IF x > y THEN "Greater" ELSE "Less"

\* C38: on sequence numbers that lie in one window of fewer than 2^15
\* consecutive values the comparison agrees with the order of their offsets
\* from the start of the window, and is a strict total order there:
\* irreflexive, exactly one of less, equal, greater for each pair, transitive.
C38_WindowOrder ==
  winOrder # NoOrder
    => /\ \A i \in 1..3 : \A j \in 1..3 :
            winOrder[i][j] = OffsetOrder(winOffsets[i], winOffsets[j])
       /\ \A i \in 1..3 : winOrder[i][i] = "Equal"
       /\ \A i \in 1..3 : \A j \in 1..3 :
            /\ winOrder[i][j] = "Equal" <=> winOffsets[i] = winOffsets[j]
            /\ winOrder[i][j] = "Less" <=> winOrder[j][i] = "Greater"
       /\ \A i \in 1..3 : \A j \in 1..3 : \A k \in 1..3 :
            (winOrder[i][j] = "Less" /\ winOrder[j][k] = "Less") => winOrder[i][k] = "Less"

\* three numbers of a window that goes over the wrap have been compared: the
\* first of the window, one from its middle, its last, which is numerically
\* the smallest
C38_Witness ==
  /\ winOrder # NoOrder
  /\ winOrder[1][2] = "Less"
  /\ winOrder[2][3] = "Less"
  /\ winOrder[1][3] = "Less"
  /\ winOffsets[3] - winOffsets[1] = MaxWindow - 1
  /\ window_value(winStart, winOffsets[3]) < window_value(winStart, winOffsets[1])

\* the buffer holds frames with the seq_nums x and y
Buffered(buffer, x, y) ==
  \E i \in 1..Len(buffer) : \E j \in 1..Len(buffer) :
    buffer[i].seq_num = x /\ buffer[j].seq_num = y

\* C39: Channel::next gives, and takes from the buffer, a buffered frame that
\* no buffered frame precedes in wraparound order, in whatever order the
\* frames came (all seq_nums lying in a window narrower than 2^15); with
\* 65535 and 0 buffered the frame given is not 0, so 65535 leaves before 0.
C39_FrameOrder ==
  [][fmLast'.op = "tick"
       => \A p \in DOMAIN fmChannels :
            LET before == fmChannels[p]
                after == fmChannels'[p]
                taken == fmLast'.popped[p]
            IN IF before = <<>>
               THEN taken = None /\ after = <<>>
               ELSE /\ taken # None
                    /\ \E i \in 1..Len(before) : before[i] = taken.value
                    /\ \A i \in 1..Len(before) :
                         (before[i].seq_num - taken.value.seq_num) % U16Modulus < U16Modulus \div 2
                    /\ Len(after) = Len(before) - 1
                    /\ \A i \in 1..Len(before) :
                         before[i] # taken.value
                           => \E j \in 1..Len(after) : after[j] = before[i]
                    /\ Buffered(before, U16Modulus - 1, 0)
                         => taken.value.seq_num \notin {0, 1}]_vars

\* frame 0 arrived before frame 65535 and tick has taken 65535, leaving 0
C39_Witness ==
  /\ fmLast.op = "tick"
  /\ \E p \in DOMAIN fmChannels :
       /\ fmLast.popped[p] # None
       /\ fmLast.popped[p].value.seq_num = U16Modulus - 1
       /\ \E i \in 1..Len(fmChannels[p]) :
            /\ fmChannels[p][i].seq_num = 0
            /\ fmChannels[p][i].data < fmLast.popped[p].value.data

\* C40: add_peer and push_data fail for no peer id from 0 to 255.
C40_PeerRange == ~fmPanicked

====
